---- MODULE Spec2Model ----
(***************************************************************************)
(* A model of the CLMM halo-modelling object (clmm/theory/parent_class.py) *)
(* and of the validation and lensing-efficiency helpers of clmm/utils.py.  *)
(*                                                                         *)
(* Numbers.  Python floats are modelled as exact rationals <<n, d>> with   *)
(* d >= 0; <<1, 0>> is +inf, <<-1, 0>> is -inf and <<0, 0>> is NaN.        *)
(* Arguments handed to the public methods are small integers (a radius, a  *)
(* redshift in tenths, a mass) wrapped in a value record that keeps the    *)
(* Python container and element type, because validate_argument looks at   *)
(* both.                                                                   *)
(***************************************************************************)
EXTENDS Integers, Sequences, FiniteSets, TLC

VARIABLES self, last

vars == <<self, last>>

(***************************************************************************)
(* Bounds of the model.                                                    *)
(***************************************************************************)
MaxArrayLen == 2

\* the z_inf the model is constructed with (tenths of a unit of redshift)
ZInf == 6

(***************************************************************************)
(* Rational arithmetic with the IEEE special values.                       *)
(***************************************************************************)
Abs(i) == IF i < 0 THEN -i ELSE i

RECURSIVE Gcd(_, _)
Gcd(a, b) == IF b = 0 THEN a ELSE Gcd(b, a % b)

Sign(i) == IF i > 0 THEN 1 ELSE IF i < 0 THEN -1 ELSE 0

Rat(n, d) ==
    IF d = 0 THEN <<Sign(n), 0>>
    ELSE LET g == Gcd(Abs(n), Abs(d))
             s == IF d < 0 THEN -1 ELSE 1
         IN  <<(s * n) \div g, (s * d) \div g>>

RInt(i) == <<i, 1>>

IsNaN(x) == x = <<0, 0>>

IsInf(x) == x[2] = 0 /\ x[1] # 0

IsFinite(x) == x[2] # 0

RNeg(x) == <<-x[1], x[2]>>

RMul(x, y) ==
    IF IsNaN(x) \/ IsNaN(y) THEN <<0, 0>>
    ELSE IF x[2] = 0 \/ y[2] = 0 THEN <<Sign(x[1]) * Sign(y[1]), 0>>
    ELSE Rat(x[1] * y[1], x[2] * y[2])

RAdd(x, y) ==
    IF IsNaN(x) \/ IsNaN(y) THEN <<0, 0>>
    ELSE IF x[2] = 0 /\ y[2] = 0 THEN (IF x[1] = y[1] THEN x ELSE <<0, 0>>)
    ELSE IF x[2] = 0 THEN x
    ELSE IF y[2] = 0 THEN y
    ELSE Rat(x[1] * y[2] + y[1] * x[2], x[2] * y[2])

RSub(x, y) == RAdd(x, RNeg(y))

\* numpy float division: x/0 is +-inf (nan for 0/0), x/inf is 0
RDiv(x, y) ==
    IF IsNaN(x) \/ IsNaN(y) THEN <<0, 0>>
    ELSE IF y[2] = 0 THEN (IF x[2] = 0 THEN <<0, 0>> ELSE <<0, 1>>)
    ELSE IF y[1] = 0 THEN (IF x[2] = 0 THEN x ELSE <<Sign(x[1]), 0>>)
    ELSE IF x[2] = 0 THEN <<Sign(x[1]) * Sign(y[1]), 0>>
    ELSE Rat(x[1] * y[2], x[2] * y[1])

RLess(x, y) == IsFinite(x) /\ IsFinite(y) /\ x[1] * y[2] < y[1] * x[2]

ROne == <<1, 1>>

RZero == <<0, 1>>

(***************************************************************************)
(* Python values as the validation helpers see them.                       *)
(*   cont : the container ("scalar", "list", "tuple", "function", "str",   *)
(*          "None"), ety : the type of the scalar or of the elements,      *)
(*   v    : the numbers held.                                              *)
(***************************************************************************)
Scalar(i) == [cont |-> "scalar", ety |-> "float", v |-> <<i>>]

Array(s) == [cont |-> "list", ety |-> "float", v |-> s]

Tuple(s) == [cont |-> "tuple", ety |-> "float", v |-> s]

StrVal == [cont |-> "str", ety |-> "str", v |-> <<>>]

NoneVal == [cont |-> "None", ety |-> "NoneType", v |-> <<>>]

FuncVal == [cont |-> "function", ety |-> "function", v |-> <<>>]

SeqMin(s) == CHOOSE m \in {s[i] : i \in DOMAIN s} : \A i \in DOMAIN s : m <= s[i]

SeqMax(s) == CHOOSE m \in {s[i] : i \in DOMAIN s} : \A i \in DOMAIN s : m >= s[i]

\* utils._valid_types: the keys and the Python types each one accepts
_valid_types ==
    [float |-> {"float", "int"}, int |-> {"int"},
     float_array |-> {"float", "int"}, int_array |-> {"int"}]

\* names that are Python type objects when they are used as valid_type
PyTypes == {"str", "tuple", "GCData"}

\* np.iterable(arg)
Iterable(arg) == arg.cont \in {"list", "tuple", "str"}

\* utils._is_valid: "True", "False", or "raises" when isinstance is handed a
\* second argument that is neither a key of _valid_types nor a type
_is_valid(arg, valid_type) ==
    IF valid_type \in {"int_array", "float_array"} /\ Iterable(arg)
    THEN (IF arg.ety \in _valid_types[valid_type] THEN "True" ELSE "False")
    ELSE IF valid_type \in DOMAIN _valid_types
    THEN (IF arg.cont = "scalar" /\ arg.ety \in _valid_types[valid_type]
          THEN "True" ELSE "False")
    ELSE IF valid_type \in PyTypes
    THEN (IF arg.cont = valid_type THEN "True" ELSE "False")
    ELSE "raises"

NoBound == -1000

\* utils.validate_argument with argmax=None: "ok", "TypeError" or "ValueError".
\* argmin = NoBound stands for argmin=None.
validate_argument_eqmin(var, valid_type, none_ok, argmin, eqmin) ==
    IF none_ok /\ var.cont = "None" THEN "ok"
    ELSE IF _is_valid(var, valid_type) # "True" THEN "TypeError"
    ELSE IF argmin = NoBound THEN "ok"
    ELSE IF var.v = <<>> THEN "TypeError"
    ELSE IF SeqMin(var.v) < argmin THEN "ValueError"
    ELSE "ok"

validate_argument(var, valid_type, none_ok, argmin, eqmin) ==
    IF none_ok /\ var.cont = "None" THEN "ok"
    ELSE IF _is_valid(var, valid_type) # "True" THEN "TypeError"
    ELSE IF argmin = NoBound THEN "ok"
    ELSE IF var.v = <<>> THEN "TypeError"
    ELSE IF (IF eqmin THEN SeqMin(var.v) < argmin ELSE SeqMin(var.v) <= argmin)
         THEN "ValueError"
    ELSE "ok"

\* the first failure of a sequence of validations, "ok" when all pass
RECURSIVE FirstError(_)
FirstError(s) ==
    IF s = <<>> THEN "ok"
    ELSE IF Head(s) # "ok" THEN Head(s)
    ELSE FirstError(Tail(s))

(***************************************************************************)
(* The modelling object.  The profile object hdpm is modelled by the       *)
(* triple it was derived from; built = FALSE is Python's None.             *)
(***************************************************************************)
NoProfile == [built |-> FALSE, halo_profile_model |-> "", massdef |-> "", delta_mdef |-> 0]

\* the mass definitions and profile families of a backend (children classes)
mdef_dict == {"mean", "critical", "virial"}

hdpm_dict == {"nfw", "einasto", "hernquist"}

\* CLMModeling.__init__, with the mass and concentration a backend starts from
NewModel(validate_input) ==
    [backend |-> "None", massdef |-> "", delta_mdef |-> 0, halo_profile_model |-> "",
     hdpm |-> NoProfile, validate_input |-> validate_input, z_inf |-> ZInf,
     mdelta |-> 1, cdelta |-> 1, einasto_alpha |-> NoneVal]

\* what a method call leaves behind: the object, the exception that ended the
\* call ("none" when it returned), whether the rebuild step ran, the value
Outcome(m, exc, rebuilt, ret) ==
    [m |-> m, exc |-> exc, rebuilt |-> rebuilt, ret |-> ret, quads |-> <<>>]

\* str.lower() on the strings the model passes in
lower(s) ==
    CASE s = "NFW" -> "nfw"
      [] s = "Einasto" -> "einasto"
      [] s = "MEAN" -> "mean"
      [] s = "Critical" -> "critical"
      [] s = "STE" -> "ste"
      [] s = "EvenWidth" -> "evenwidth"
      [] s = "Mpc" -> "mpc"
      [] s = "Degrees" -> "degrees"
      [] OTHER -> s

\* a backend's _update_halo_density_profile: it looks the stored names up in
\* its two dictionaries and derives the profile object from the stored triple
_update_halo_density_profile(m) ==
    IF m.massdef \in mdef_dict /\ m.halo_profile_model \in hdpm_dict
    THEN Outcome([m EXCEPT !.hdpm = [built |-> TRUE,
                                     halo_profile_model |-> m.halo_profile_model,
                                     massdef |-> m.massdef,
                                     delta_mdef |-> m.delta_mdef]],
                 "none", TRUE, <<>>)
    ELSE Outcome(m, "KeyError", TRUE, <<>>)

\* the validation block of set_halo_density_profile, on lower-cased names
validate_halo_density_profile(halo_profile_model, massdef, delta_mdef) ==
    FirstError(<<
        validate_argument(StrVal, "str", FALSE, NoBound, FALSE),
        validate_argument(StrVal, "str", FALSE, NoBound, FALSE),
        validate_argument([cont |-> "scalar", ety |-> "int", v |-> <<delta_mdef>>],
                          "int", FALSE, 0, FALSE),
        IF massdef \notin mdef_dict THEN "ValueError" ELSE "ok",
        IF halo_profile_model \notin hdpm_dict THEN "ValueError" ELSE "ok" >>)

\* the test that decides whether the profile object has to be derived again
needs_update_ignoring_delta(m, halo_profile_model, massdef, delta_mdef) ==
    \/ ~m.hdpm.built
    \/ m.halo_profile_model # halo_profile_model
    \/ m.massdef # massdef

needs_update(m, halo_profile_model, massdef, delta_mdef) ==
    \/ ~m.hdpm.built
    \/ m.halo_profile_model # halo_profile_model
    \/ m.massdef # massdef
    \/ m.delta_mdef # delta_mdef

\* a variant that stores the triple before it validates it
set_halo_density_profile_store_first(m, halo_profile_model, massdef, delta_mdef) ==
    LET hpm == lower(halo_profile_model)
        md  == lower(massdef)
        chk == IF m.validate_input
               THEN validate_halo_density_profile(hpm, md, delta_mdef)
               ELSE "ok"
        st  == [m EXCEPT !.halo_profile_model = hpm, !.massdef = md,
                         !.delta_mdef = delta_mdef]
    IN  IF chk # "ok" THEN Outcome(st, chk, FALSE, <<>>)
        ELSE IF needs_update(m, hpm, md, delta_mdef)
        THEN _update_halo_density_profile(st)
        ELSE Outcome(m, "none", FALSE, <<>>)

\* CLMModeling.set_halo_density_profile
set_halo_density_profile(m, halo_profile_model, massdef, delta_mdef) ==
    LET hpm == lower(halo_profile_model)
        md  == lower(massdef)
        chk == IF m.validate_input
               THEN validate_halo_density_profile(hpm, md, delta_mdef)
               ELSE "ok"
    IN  IF chk # "ok" THEN Outcome(m, chk, FALSE, <<>>)
        ELSE IF needs_update(m, hpm, md, delta_mdef)
        THEN _update_halo_density_profile(
                 [m EXCEPT !.halo_profile_model = hpm,
                           !.massdef = md,
                           !.delta_mdef = delta_mdef])
        ELSE Outcome(m, "none", FALSE, <<>>)

\* the property setters massdef, delta_mdef and halo_profile_model
massdef_setter(m, massdef) ==
    set_halo_density_profile(m, m.halo_profile_model, massdef, m.delta_mdef)

delta_mdef_setter(m, delta_mdef) ==
    set_halo_density_profile(m, m.halo_profile_model, m.massdef, delta_mdef)

halo_profile_model_setter(m, halo_profile_model) ==
    set_halo_density_profile(m, halo_profile_model, m.massdef, m.delta_mdef)

\* a backend's _set_mass and _set_concentration store the value
_set_mass(m, mdelta) == [m EXCEPT !.mdelta = mdelta]

_set_concentration(m, cdelta) == [m EXCEPT !.cdelta = cdelta]

\* CLMModeling.set_mass
set_mass(m, mdelta) ==
    LET chk == IF m.validate_input
               THEN validate_argument(Scalar(mdelta), "float", FALSE, 0, FALSE)
               ELSE "ok"
    IN  IF chk # "ok" THEN Outcome(m, chk, FALSE, <<>>)
        ELSE Outcome(_set_mass(m, mdelta), "none", FALSE, <<>>)

\* CLMModeling.set_concentration
set_concentration(m, cdelta) ==
    LET chk == IF m.validate_input
               THEN validate_argument(Scalar(cdelta), "float", FALSE, 0, FALSE)
               ELSE "ok"
    IN  IF chk # "ok" THEN Outcome(m, chk, FALSE, <<>>)
        ELSE Outcome(_set_concentration(m, cdelta), "none", FALSE, <<>>)

(***************************************************************************)
(* The profile functions.  The closed forms live in the backends; the      *)
(* model uses a profile with Sigma = M c / r and mean Sigma = 2 M c / r.   *)
(***************************************************************************)
_eval_3d_density(m, r) == Rat(m.mdelta * m.cdelta, r * r)

_eval_surface_density(m, r) == Rat(m.mdelta * m.cdelta, r)

_eval_mean_surface_density(m, r) == Rat(2 * m.mdelta * m.cdelta, r)

_eval_excess_surface_density(m, r) ==
    RSub(_eval_mean_surface_density(m, r), _eval_surface_density(m, r))

ProfileFunctions ==
    {"eval_3d_density", "eval_surface_density", "eval_mean_surface_density",
     "eval_excess_surface_density"}

ProfileValue(m, func, r) ==
    CASE func = "eval_3d_density" -> _eval_3d_density(m, r)
      [] func = "eval_surface_density" -> _eval_surface_density(m, r)
      [] func = "eval_mean_surface_density" -> _eval_mean_surface_density(m, r)
      [] func = "eval_excess_surface_density" -> _eval_excess_surface_density(m, r)

\* the validation block of the four profile functions: eval_3d_density takes
\* z_cl as a 'float_array', the other three as a float
validate_profile_args_radius_only(m, func, r, z_cl) ==
    IF ~m.validate_input THEN "ok"
    ELSE validate_argument(r, "float_array", FALSE, 0, FALSE)

validate_profile_args(m, func, r, z_cl) ==
    IF ~m.validate_input THEN "ok"
    ELSE FirstError(<<validate_argument(r, "float_array", FALSE, 0, FALSE),
                      validate_argument(z_cl,
                                        IF func = "eval_3d_density"
                                        THEN "float_array" ELSE "float",
                                        FALSE, 0, FALSE)>>)

\* eval_3d_density, eval_surface_density, eval_mean_surface_density and
\* eval_excess_surface_density
eval_profile(m, func, r, z_cl) ==
    LET chk == validate_profile_args(m, func, r, z_cl)
    IN  IF chk # "ok" THEN Outcome(m, chk, FALSE, <<>>)
        ELSE Outcome(m, "none", FALSE,
                     [i \in DOMAIN r.v |-> ProfileValue(m, func, r.v[i])])

(***************************************************************************)
(* Lensing observables.  Redshifts are integers (tenths).  The cosmology   *)
(* is external: its critical surface density is +inf for a source that is  *)
(* not behind the lens.                                                    *)
(***************************************************************************)
eval_sigma_crit(z_len, z_src) ==
    IF z_src <= z_len THEN <<1, 0>> ELSE Rat(z_src, z_len * (z_src - z_len))

\* The cores reach the profile and the other observables through the public
\* methods, with the r_proj, z_cl and z_src their caller has validated: that
\* inner validation passes whenever the caller's did, and the inner masking
\* leaves a source behind the lens to the core.
_eval_tangential_shear_core(m, r, z_cl, z_src) ==
    RDiv(_eval_excess_surface_density(m, r), eval_sigma_crit(z_cl, z_src))

_eval_convergence_core(m, r, z_cl, z_src) ==
    RDiv(_eval_surface_density(m, r), eval_sigma_crit(z_cl, z_src))

\* generic.compute_reduced_shear_from_convergence
compute_reduced_shear_from_convergence(shear, convergence) ==
    RDiv(shear, RSub(ROne, convergence))

_eval_reduced_tangential_shear_core(m, r, z_cl, z_src) ==
    compute_reduced_shear_from_convergence(
        _eval_tangential_shear_core(m, r, z_cl, z_src),
        _eval_convergence_core(m, r, z_cl, z_src))

RAbs(x) == <<Abs(x[1]), x[2]>>

_eval_magnification_core(m, r, z_cl, z_src) ==
    LET kappa == _eval_convergence_core(m, r, z_cl, z_src)
        gamma_t == _eval_tangential_shear_core(m, r, z_cl, z_src)
        omk == RSub(ROne, kappa)
    IN  RDiv(ROne, RSub(RMul(omk, omk), RMul(RAbs(gamma_t), RAbs(gamma_t))))

RECURSIVE RPow(_, _)
RPow(x, n) == IF n = 0 THEN ROne ELSE RMul(x, RPow(x, n - 1))

\* generic.compute_magnification_bias_from_magnification, integer slopes >= 1
compute_magnification_bias_from_magnification(magnification, alpha) ==
    RPow(magnification, alpha - 1)

_eval_magnification_bias_core(m, r, z_cl, z_src, alpha) ==
    compute_magnification_bias_from_magnification(
        _eval_magnification_core(m, r, z_cl, z_src), alpha)

\* broadcasting of r_proj against z_src: one of the two is a scalar
BLen(r, z) == IF Len(r.v) >= Len(z.v) THEN Len(r.v) ELSE Len(z.v)

Elem(x, i) == IF Len(x.v) = 1 THEN x.v[1] ELSE x.v[i]

\* utils.compute_for_good_redshifts: the function where z1 < z2, bad_value
\* elsewhere
GoodRedshift(z1, z2) == z1 < z2

LensFunctions ==
    {"eval_tangential_shear", "eval_convergence", "eval_reduced_tangential_shear",
     "eval_magnification", "eval_magnification_bias"}

CoreValue(m, func, r, z_cl, z_src, alpha) ==
    CASE func = "eval_tangential_shear" -> _eval_tangential_shear_core(m, r, z_cl, z_src)
      [] func = "eval_convergence" -> _eval_convergence_core(m, r, z_cl, z_src)
      [] func = "eval_reduced_tangential_shear" ->
            _eval_reduced_tangential_shear_core(m, r, z_cl, z_src)
      [] func = "eval_magnification" -> _eval_magnification_core(m, r, z_cl, z_src)
      [] func = "eval_magnification_bias" ->
            _eval_magnification_bias_core(m, r, z_cl, z_src, alpha)

\* the bad_value each public method hands to compute_for_good_redshifts
bad_value_all_zero(func) == RZero

bad_value(func) ==
    CASE func = "eval_tangential_shear" -> RZero
      [] func = "eval_convergence" -> RZero
      [] func = "eval_reduced_tangential_shear" -> RZero
      [] func = "eval_magnification" -> ROne
      [] func = "eval_magnification_bias" -> ROne

compute_for_good_redshifts(m, func, r, z_cl, z_src, alpha) ==
    [i \in 1..BLen(r, z_src) |->
        IF GoodRedshift(z_cl.v[1], Elem(z_src, i))
        THEN CoreValue(m, func, Elem(r, i), z_cl.v[1], Elem(z_src, i), alpha)
        ELSE bad_value(func)]

(***************************************************************************)
(* Integration over a source redshift distribution.  scipy's quad is       *)
(* external: a call is recorded with its integrand and its two bounds, and *)
(* the number it returns is not modelled.  beta_kwargs is a function from  *)
(* the keys present to their values; NoneZ is a key present with None.     *)
(***************************************************************************)
NoneZ == -999

DefaultZmax == 100

DefaultDeltaZCut == 1

KwGet(kw, key, default) == IF key \in DOMAIN kw THEN kw[key] ELSE default

Quad(f, lo, hi) == [f |-> f, lo |-> lo, hi |-> hi]

\* quad raises TypeError when a bound is None
QuadsRaise(quads) == \E i \in DOMAIN quads : quads[i].lo = NoneZ \/ quads[i].hi = NoneZ

\* the lower bound when a None zmin is not replaced by the default
zmin_of_kwargs_get(z_cl, kw) ==
    KwGet(kw, "zmin", z_cl + KwGet(kw, "delta_z_cut", DefaultDeltaZCut))

\* the lower bound of compute_beta_s_mean and compute_beta_s_square_mean:
\* zmin=None (the default) is replaced by z_cl + delta_z_cut
zmin_of_beta_s_mean(z_cl, kw) ==
    IF KwGet(kw, "zmin", NoneZ) = NoneZ
    THEN z_cl + KwGet(kw, "delta_z_cut", DefaultDeltaZCut)
    ELSE kw["zmin"]

\* utils.compute_beta_s_mean: numerator and denominator integrals
compute_beta_s_mean(z_cl, kw) ==
    LET zmin == zmin_of_beta_s_mean(z_cl, kw)
        zmax == KwGet(kw, "zmax", DefaultZmax)
    IN  <<Quad("beta_s*pdz", zmin, zmax), Quad("pdz", zmin, zmax)>>

\* utils.compute_beta_s_square_mean
compute_beta_s_square_mean(z_cl, kw) ==
    LET zmin == zmin_of_beta_s_mean(z_cl, kw)
        zmax == KwGet(kw, "zmax", DefaultZmax)
    IN  <<Quad("beta_s^2*pdz", zmin, zmax), Quad("pdz", zmin, zmax)>>

\* CLMModeling._pdz_weighted_avg: one numerator integral per radius, then the
\* normalisation; zmin is read with dict.get, so a None stays None
_pdz_weighted_avg(r, z_cl, kw) ==
    LET zmax == KwGet(kw, "zmax", DefaultZmax)
        zmin == zmin_of_kwargs_get(z_cl, kw)
    IN  [i \in DOMAIN r.v |-> Quad("core*pdz", zmin, zmax)] \o <<Quad("pdz", zmin, zmax)>>

(***************************************************************************)
(* The public lensing methods.                                             *)
(***************************************************************************)
_def_keys == {"zmin", "zmax", "delta_z_cut"}

\* beta_s_mean and beta_s_square_mean are passed in quarters
BetaUnit == 4

\* CLMModeling._validate_z_src; approx = "None" is None (or no such argument)
_validate_z_src(z_src, z_src_info, approx, kw) ==
    FirstError(<<
        CASE z_src_info = "discrete" ->
                validate_argument(z_src, "float_array", FALSE, 0, FALSE)
          [] z_src_info = "distribution" ->
                FirstError(<<validate_argument(z_src, "function", FALSE, NoBound, FALSE),
                             IF DOMAIN kw \subseteq _def_keys THEN "ok" ELSE "KeyError">>)
          [] z_src_info = "beta" ->
                FirstError(<<validate_argument(z_src, "array", FALSE, NoBound, FALSE),
                             IF Len(z_src.v) < 2 THEN "IndexError" ELSE "ok",
                             validate_argument(Scalar(z_src.v[1]), "float_array",
                                               FALSE, NoBound, FALSE),
                             validate_argument(Scalar(z_src.v[2]), "float_array",
                                               FALSE, NoBound, FALSE)>>)
          [] OTHER -> "ok",
        IF approx \notin {"None", ""} /\ z_src_info \notin {"distribution", "beta"}
        THEN "ValueError" ELSE "ok" >>)

HasApprox(func) ==
    func \in {"eval_reduced_tangential_shear", "eval_magnification",
              "eval_magnification_bias"}

\* the validation block at the head of each public lensing method
validate_lens_args(m, func, r, z_cl, z_src, z_src_info, approx, alpha, kw) ==
    IF ~m.validate_input THEN "ok"
    ELSE FirstError(<<
        validate_argument(r, "float_array", FALSE, 0, FALSE),
        validate_argument(z_cl, "float", FALSE, 0, FALSE),
        validate_argument(StrVal, "str", FALSE, NoBound, FALSE),
        IF func = "eval_magnification_bias"
        THEN validate_argument(Scalar(alpha), "float_array", FALSE, NoBound, FALSE)
        ELSE "ok",
        IF HasApprox(func)
        THEN validate_argument(IF approx = "None" THEN NoneVal ELSE StrVal,
                               "str", TRUE, NoBound, FALSE)
        ELSE "ok",
        _validate_z_src(z_src, z_src_info, IF HasApprox(func) THEN approx ELSE "None", kw) >>)

\* the observable for a source at z_inf, one value per radius
AtInfinity(m, func, r, z_cl) ==
    [i \in DOMAIN r.v |-> CoreValue(m, func, r.v[i], z_cl.v[1], m.z_inf, 1)]

\* CLMModeling._get_beta_s_mean / _get_beta_s_square_mean: the value for
\* 'beta', the integrals for 'distribution', an unbound local otherwise
_get_beta_s_mean(z_cl, z_src, z_src_info, kw) ==
    CASE z_src_info = "beta" ->
            [exc |-> "none", known |-> TRUE, val |-> Rat(z_src.v[1], BetaUnit),
             quads |-> <<>>]
      [] z_src_info = "distribution" ->
            LET q == compute_beta_s_mean(z_cl.v[1], kw)
            IN  [exc |-> IF QuadsRaise(q) THEN "TypeError" ELSE "none",
                 known |-> FALSE, val |-> RZero, quads |-> q]
      [] OTHER ->
            [exc |-> "UnboundLocalError", known |-> FALSE, val |-> RZero, quads |-> <<>>]

_get_beta_s_square_mean(z_cl, z_src, z_src_info, kw) ==
    CASE z_src_info = "beta" ->
            [exc |-> "none", known |-> TRUE, val |-> Rat(z_src.v[2], BetaUnit),
             quads |-> <<>>]
      [] z_src_info = "distribution" ->
            LET q == compute_beta_s_square_mean(z_cl.v[1], kw)
            IN  [exc |-> IF QuadsRaise(q) THEN "TypeError" ELSE "none",
                 known |-> FALSE, val |-> RZero, quads |-> q]
      [] OTHER ->
            [exc |-> "UnboundLocalError", known |-> FALSE, val |-> RZero, quads |-> <<>>]

WithQuads(o, quads) == [o EXCEPT !.quads = quads]

Raise(m, exc) == Outcome(m, exc, FALSE, <<>>)

Return(m, ret) == Outcome(m, "none", FALSE, ret)

\* the body shared by eval_tangential_shear and eval_convergence
ShearOrConvergence(m, func, r, z_cl, z_src, z_src_info, kw) ==
    IF z_src_info = "discrete"
    THEN Return(m, compute_for_good_redshifts(m, func, r, z_cl, z_src, 1))
    ELSE IF z_src_info \in {"distribution", "beta"}
    THEN LET b == _get_beta_s_mean(z_cl, z_src, z_src_info, kw)
             inf == AtInfinity(m, func, r, z_cl)
         IN  IF b.exc # "none" THEN WithQuads(Raise(m, b.exc), b.quads)
             ELSE IF b.known
             THEN Return(m, [i \in DOMAIN inf |-> RMul(b.val, inf[i])])
             ELSE WithQuads(Return(m, <<>>), b.quads)
    ELSE Raise(m, "ValueError")

\* CLMModeling.eval_tangential_shear
eval_tangential_shear(m, r, z_cl, z_src, z_src_info, kw) ==
    LET chk == validate_lens_args(m, "eval_tangential_shear", r, z_cl, z_src,
                                  z_src_info, "None", 1, kw)
    IN  IF chk # "ok" THEN Raise(m, chk)
        ELSE ShearOrConvergence(m, "eval_tangential_shear", r, z_cl, z_src, z_src_info, kw)

\* CLMModeling.eval_convergence
eval_convergence(m, r, z_cl, z_src, z_src_info, kw) ==
    LET chk == validate_lens_args(m, "eval_convergence", r, z_cl, z_src,
                                  z_src_info, "None", 1, kw)
    IN  IF chk # "ok" THEN Raise(m, chk)
        ELSE ShearOrConvergence(m, "eval_convergence", r, z_cl, z_src, z_src_info, kw)

\* the first- and second-order expressions in beta_s_mean (b1) and
\* beta_s_square_mean (b2), for one radius
reduced_shear_order1(b1, gammat_inf, kappa_inf) ==
    RDiv(RMul(b1, gammat_inf), RSub(ROne, RMul(b1, kappa_inf)))

reduced_shear_order2(b1, b2, gammat_inf, kappa_inf) ==
    RMul(reduced_shear_order1(b1, gammat_inf, kappa_inf),
         RAdd(ROne, RMul(RMul(RSub(RDiv(b2, RMul(b1, b1)), ROne), b1), kappa_inf)))

magnification_order1(b1, gammat_inf, kappa_inf) ==
    RAdd(ROne, RMul(RInt(2), RMul(b1, kappa_inf)))

magnification_order2(b1, b2, gammat_inf, kappa_inf) ==
    RAdd(magnification_order1(b1, gammat_inf, kappa_inf),
         RAdd(RMul(RInt(3), RMul(b2, RMul(kappa_inf, kappa_inf))),
              RMul(b2, RMul(gammat_inf, gammat_inf))))

magnification_bias_order1(b1, gammat_inf, kappa_inf, alpha) ==
    RAdd(ROne, RMul(RInt(alpha - 1), RMul(RInt(2), RMul(b1, kappa_inf))))

\* a second-order term written in terms of the variance b2 - b1^2
magnification_bias_order2_variance(b1, b2, gammat_inf, kappa_inf, alpha) ==
    LET var == RSub(b2, RMul(b1, b1))
    IN  RAdd(magnification_bias_order1(b1, gammat_inf, kappa_inf, alpha),
             RAdd(RMul(RInt(alpha - 1), RMul(var, RMul(gammat_inf, gammat_inf))),
                  RMul(RInt((2 * alpha - 1) * (alpha - 1)),
                       RMul(var, RMul(kappa_inf, kappa_inf)))))

magnification_bias_order2(b1, b2, gammat_inf, kappa_inf, alpha) ==
    RAdd(magnification_bias_order1(b1, gammat_inf, kappa_inf, alpha),
         RAdd(RMul(RInt(alpha - 1), RMul(b2, RMul(gammat_inf, gammat_inf))),
              RMul(RInt((2 * alpha - 1) * (alpha - 1)),
                   RMul(b2, RMul(kappa_inf, kappa_inf)))))

Approximation(func, approx, b1, b2, gammat_inf, kappa_inf, alpha) ==
    CASE func = "eval_reduced_tangential_shear" ->
            IF approx = "order1" THEN reduced_shear_order1(b1, gammat_inf, kappa_inf)
            ELSE reduced_shear_order2(b1, b2, gammat_inf, kappa_inf)
      [] func = "eval_magnification" ->
            IF approx = "order1" THEN magnification_order1(b1, gammat_inf, kappa_inf)
            ELSE magnification_order2(b1, b2, gammat_inf, kappa_inf)
      [] func = "eval_magnification_bias" ->
            IF approx = "order1"
            THEN magnification_bias_order1(b1, gammat_inf, kappa_inf, alpha)
            ELSE magnification_bias_order2(b1, b2, gammat_inf, kappa_inf, alpha)

\* the body shared by eval_reduced_tangential_shear, eval_magnification and
\* eval_magnification_bias
ApproxBody(m, func, r, z_cl, z_src, z_src_info, approx, alpha, kw) ==
    IF approx = "None"
    THEN IF z_src_info = "distribution"
         THEN LET q == _pdz_weighted_avg(r, z_cl.v[1], kw)
              IN  IF r.cont = "scalar" THEN Raise(m, "TypeError")
                  ELSE IF QuadsRaise(q) THEN WithQuads(Raise(m, "TypeError"), q)
                  ELSE WithQuads(Return(m, <<>>), q)
         ELSE IF z_src_info = "discrete"
         THEN Return(m, compute_for_good_redshifts(m, func, r, z_cl, z_src, alpha))
         ELSE Raise(m, "ValueError")
    ELSE IF approx \in {"order1", "order2"}
    THEN LET b1 == _get_beta_s_mean(z_cl, z_src, z_src_info, kw)
             b2 == IF approx = "order2"
                   THEN _get_beta_s_square_mean(z_cl, z_src, z_src_info, kw)
                   ELSE [exc |-> "none", known |-> b1.known, val |-> RZero,
                         quads |-> <<>>]
             gammat_inf == AtInfinity(m, "eval_tangential_shear", r, z_cl)
             kappa_inf == AtInfinity(m, "eval_convergence", r, z_cl)
         IN  IF b1.exc # "none" THEN WithQuads(Raise(m, b1.exc), b1.quads)
             ELSE IF b2.exc # "none" THEN WithQuads(Raise(m, b2.exc), b1.quads \o b2.quads)
             ELSE IF b1.known
             THEN Return(m, [i \in DOMAIN r.v |->
                                Approximation(func, approx, b1.val, b2.val,
                                              gammat_inf[i], kappa_inf[i], alpha)])
             ELSE WithQuads(Return(m, <<>>), b1.quads \o b2.quads)
    ELSE Raise(m, "ValueError")

\* CLMModeling.eval_reduced_tangential_shear
eval_reduced_tangential_shear(m, r, z_cl, z_src, z_src_info, approx, kw) ==
    LET chk == validate_lens_args(m, "eval_reduced_tangential_shear", r, z_cl, z_src,
                                  z_src_info, approx, 1, kw)
    IN  IF chk # "ok" THEN Raise(m, chk)
        ELSE ApproxBody(m, "eval_reduced_tangential_shear", r, z_cl, z_src,
                        z_src_info, approx, 1, kw)

\* CLMModeling.eval_magnification
eval_magnification(m, r, z_cl, z_src, z_src_info, approx, kw) ==
    LET chk == validate_lens_args(m, "eval_magnification", r, z_cl, z_src,
                                  z_src_info, approx, 1, kw)
    IN  IF chk # "ok" THEN Raise(m, chk)
        ELSE ApproxBody(m, "eval_magnification", r, z_cl, z_src,
                        z_src_info, approx, 1, kw)

\* CLMModeling.eval_magnification_bias
eval_magnification_bias(m, r, z_cl, z_src, alpha, z_src_info, approx, kw) ==
    LET chk == validate_lens_args(m, "eval_magnification_bias", r, z_cl, z_src,
                                  z_src_info, approx, alpha, kw)
    IN  IF chk # "ok" THEN Raise(m, chk)
        ELSE ApproxBody(m, "eval_magnification_bias", r, z_cl, z_src,
                        z_src_info, approx, alpha, kw)

(***************************************************************************)
(* The calls a client makes.  A call runs a method on the object and       *)
(* leaves in last the method, its arguments, how it ended and the object   *)
(* as it was before; the client then takes the result and is ready for the *)
(* next call (last.op = "idle").                                           *)
(***************************************************************************)
HaloProfileInputs == {"nfw", "NFW", "einasto", "bleh"}

MassdefInputs == {"mean", "MEAN", "critical", "bleh"}

DeltaInputs == {0, 200, 500}

MassInputs == {-1, 0, 2}

ConcentrationInputs == {0, 2}

RadiusValues == {-1, 0, 1, 2}

ClusterRedshifts == {-1, 0, 2}

SourceRedshifts == {0, 1, 2, 3}

SlopeInputs == {1, 2}

InfoInputs == {"discrete", "distribution", "beta", "blah"}

ApproxInputs == {"None", "order1", "order2", "blah"}

\* a scalar, or an array of MaxArrayLen entries
ScalarOrArray(values) ==
    {Scalar(x) : x \in values} \cup {Array(a) : a \in [1..MaxArrayLen -> values]}

\* (beta_s_mean, beta_s_square_mean) in quarters
BetaPairs == {Tuple(<<b1, b2>>) : b1 \in {2, 4}, b2 \in {1, 2, 4}}

EmptyKw == [k \in {} |-> 0]

KwInputs ==
    {[k \in keys |-> CASE k = "zmin" -> zmin [] k = "zmax" -> 20 [] k = "delta_z_cut" -> 2] :
        keys \in SUBSET _def_keys, zmin \in {NoneZ, 5}}

\* the z_src values handed in for each z_src_info
SourceInputs(z_src_info) ==
    CASE z_src_info = "discrete" -> ScalarOrArray(SourceRedshifts)
      [] z_src_info = "distribution" -> {FuncVal}
      [] z_src_info = "beta" -> BetaPairs
      [] OTHER -> {Scalar(3)}

\* beta_kwargs is only read for a distribution
KwInputsFor(z_src_info) == IF z_src_info = "distribution" THEN KwInputs ELSE {EmptyKw}

\* r_proj and z_src as they are passed together: at most one of them an array
Broadcastable(r, z_src) == r.cont = "scalar" \/ z_src.cont # "list"

NoArgs ==
    [halo_profile_model |-> "", massdef |-> "", delta_mdef |-> 0, value |-> 0,
     func |-> "", r |-> Scalar(1), z_cl |-> Scalar(1), z_src |-> Scalar(1),
     z_src_info |-> "", approx |-> "None", alpha |-> 1, kw |-> EmptyKw]

Idle(m) ==
    [op |-> "idle", args |-> NoArgs, exc |-> "none", rebuilt |-> FALSE,
     ret |-> <<>>, quads |-> <<>>, pre |-> m]

Done(op, args, o) ==
    [op |-> op, args |-> args, exc |-> o.exc, rebuilt |-> o.rebuilt,
     ret |-> o.ret, quads |-> o.quads, pre |-> self]

Ready == last.op = "idle"

Init ==
    /\ \E validate_input \in BOOLEAN : self = NewModel(validate_input)
    /\ last = Idle(self)

\* the state after set_halo_density_profile() with its default arguments
InitConfigured ==
    /\ \E validate_input \in BOOLEAN :
          self = set_halo_density_profile(NewModel(validate_input), "nfw", "mean", 200).m
    /\ last = Idle(self)

TakeResult ==
    /\ ~Ready
    /\ last' = Idle(self)
    /\ UNCHANGED self

SetHaloDensityProfile ==
    /\ Ready
    /\ \E hpm \in HaloProfileInputs, md \in MassdefInputs, delta \in DeltaInputs :
        LET o == set_halo_density_profile(self, hpm, md, delta)
        IN  /\ self' = o.m
            /\ last' = Done("set_halo_density_profile",
                            [NoArgs EXCEPT !.halo_profile_model = hpm, !.massdef = md,
                                           !.delta_mdef = delta], o)

SetMassdef ==
    /\ Ready
    /\ \E md \in MassdefInputs :
        LET o == massdef_setter(self, md)
        IN  /\ self' = o.m
            /\ last' = Done("massdef.setter", [NoArgs EXCEPT !.massdef = md], o)

SetDeltaMdef ==
    /\ Ready
    /\ \E delta \in DeltaInputs :
        LET o == delta_mdef_setter(self, delta)
        IN  /\ self' = o.m
            /\ last' = Done("delta_mdef.setter", [NoArgs EXCEPT !.delta_mdef = delta], o)

SetHaloProfileModel ==
    /\ Ready
    /\ \E hpm \in HaloProfileInputs :
        LET o == halo_profile_model_setter(self, hpm)
        IN  /\ self' = o.m
            /\ last' = Done("halo_profile_model.setter",
                            [NoArgs EXCEPT !.halo_profile_model = hpm], o)

SetMass ==
    /\ Ready
    /\ \E mdelta \in MassInputs :
        LET o == set_mass(self, mdelta)
        IN  /\ self' = o.m
            /\ last' = Done("set_mass", [NoArgs EXCEPT !.value = mdelta], o)

SetConcentration ==
    /\ Ready
    /\ \E cdelta \in ConcentrationInputs :
        LET o == set_concentration(self, cdelta)
        IN  /\ self' = o.m
            /\ last' = Done("set_concentration", [NoArgs EXCEPT !.value = cdelta], o)

EvalProfile ==
    /\ Ready
    /\ \E func \in ProfileFunctions, r \in ScalarOrArray(RadiusValues),
          z_cl \in ClusterRedshifts :
        LET o == eval_profile(self, func, r, Scalar(z_cl))
        IN  /\ self' = o.m
            /\ last' = Done(func, [NoArgs EXCEPT !.func = func, !.r = r,
                                                 !.z_cl = Scalar(z_cl)], o)

EvalTangentialShear ==
    /\ Ready
    /\ \E r \in ScalarOrArray(RadiusValues), z_cl \in ClusterRedshifts,
          z_src_info \in InfoInputs :
        \E z_src \in SourceInputs(z_src_info), kw \in KwInputsFor(z_src_info) :
            /\ Broadcastable(r, z_src)
            /\ LET o == eval_tangential_shear(self, r, Scalar(z_cl), z_src, z_src_info, kw)
               IN  /\ self' = o.m
                   /\ last' = Done("eval_tangential_shear",
                                   [NoArgs EXCEPT !.func = "eval_tangential_shear",
                                                  !.r = r, !.z_cl = Scalar(z_cl),
                                                  !.z_src = z_src,
                                                  !.z_src_info = z_src_info,
                                                  !.kw = kw], o)

EvalConvergence ==
    /\ Ready
    /\ \E r \in ScalarOrArray(RadiusValues), z_cl \in ClusterRedshifts,
          z_src_info \in InfoInputs :
        \E z_src \in SourceInputs(z_src_info), kw \in KwInputsFor(z_src_info) :
            /\ Broadcastable(r, z_src)
            /\ LET o == eval_convergence(self, r, Scalar(z_cl), z_src, z_src_info, kw)
               IN  /\ self' = o.m
                   /\ last' = Done("eval_convergence",
                                   [NoArgs EXCEPT !.func = "eval_convergence",
                                                  !.r = r, !.z_cl = Scalar(z_cl),
                                                  !.z_src = z_src,
                                                  !.z_src_info = z_src_info,
                                                  !.kw = kw], o)

EvalReducedTangentialShear ==
    /\ Ready
    /\ \E r \in ScalarOrArray(RadiusValues), z_cl \in ClusterRedshifts,
          z_src_info \in InfoInputs, approx \in ApproxInputs :
        \E z_src \in SourceInputs(z_src_info), kw \in KwInputsFor(z_src_info) :
            /\ Broadcastable(r, z_src)
            /\ LET o == eval_reduced_tangential_shear(self, r, Scalar(z_cl), z_src,
                                                      z_src_info, approx, kw)
               IN  /\ self' = o.m
                   /\ last' = Done("eval_reduced_tangential_shear",
                                   [NoArgs EXCEPT !.func = "eval_reduced_tangential_shear",
                                                  !.r = r, !.z_cl = Scalar(z_cl),
                                                  !.z_src = z_src,
                                                  !.z_src_info = z_src_info,
                                                  !.approx = approx, !.kw = kw], o)

EvalMagnification ==
    /\ Ready
    /\ \E r \in ScalarOrArray(RadiusValues), z_cl \in ClusterRedshifts,
          z_src_info \in InfoInputs, approx \in ApproxInputs :
        \E z_src \in SourceInputs(z_src_info), kw \in KwInputsFor(z_src_info) :
            /\ Broadcastable(r, z_src)
            /\ LET o == eval_magnification(self, r, Scalar(z_cl), z_src,
                                           z_src_info, approx, kw)
               IN  /\ self' = o.m
                   /\ last' = Done("eval_magnification",
                                   [NoArgs EXCEPT !.func = "eval_magnification",
                                                  !.r = r, !.z_cl = Scalar(z_cl),
                                                  !.z_src = z_src,
                                                  !.z_src_info = z_src_info,
                                                  !.approx = approx, !.kw = kw], o)

EvalMagnificationBias ==
    /\ Ready
    /\ \E r \in ScalarOrArray(RadiusValues), z_cl \in ClusterRedshifts,
          z_src_info \in InfoInputs, approx \in ApproxInputs, alpha \in SlopeInputs :
        \E z_src \in SourceInputs(z_src_info), kw \in KwInputsFor(z_src_info) :
            /\ Broadcastable(r, z_src)
            /\ LET o == eval_magnification_bias(self, r, Scalar(z_cl), z_src, alpha,
                                                z_src_info, approx, kw)
               IN  /\ self' = o.m
                   /\ last' = Done("eval_magnification_bias",
                                   [NoArgs EXCEPT !.func = "eval_magnification_bias",
                                                  !.r = r, !.z_cl = Scalar(z_cl),
                                                  !.z_src = z_src,
                                                  !.z_src_info = z_src_info,
                                                  !.approx = approx, !.alpha = alpha,
                                                  !.kw = kw], o)

\* the profile configuration and its setters
Next ==
    \/ SetHaloDensityProfile
    \/ SetMassdef
    \/ SetDeltaMdef
    \/ SetHaloProfileModel
    \/ SetMass
    \/ SetConcentration
    \/ TakeResult

Spec == Init /\ [][Next]_vars

\* the profile functions of a configured model
NextProfile ==
    \/ SetMass
    \/ SetConcentration
    \/ EvalProfile
    \/ TakeResult

SpecProfile == InitConfigured /\ [][NextProfile]_vars

\* the lensing observables of a configured model
NextLens ==
    \/ EvalTangentialShear
    \/ EvalConvergence
    \/ EvalReducedTangentialShear
    \/ EvalMagnification
    \/ EvalMagnificationBias
    \/ TakeResult

SpecLens == InitConfigured /\ [][NextLens]_vars

(***************************************************************************)
(* Properties of the profile configuration.                                *)
(***************************************************************************)
\* two names that differ at most in letter case
EqualIgnoringCase(a, b) ==
    \/ a = b
    \/ {a, b} \in {{"nfw", "NFW"}, {"einasto", "Einasto"}, {"mean", "MEAN"},
                   {"critical", "Critical"}}

LowerCaseNames == {"nfw", "einasto", "hernquist", "bleh", "mean", "critical", "virial", ""}

RejectedByValidation == last.exc \in {"ValueError", "TypeError"} /\ ~last.rebuilt

SetterOps ==
    {"set_halo_density_profile", "massdef.setter", "delta_mdef.setter",
     "halo_profile_model.setter"}

\* C3: a set_halo_density_profile call that passes validation runs the rebuild
\* step exactly when there is no profile object yet or one of the three
\* settings differs (names compared without regard to case) from the stored
\* ones; without a rebuild the object is left as it was, and after a rebuild
\* the stored triple is the lower-cased arguments.
C3_RebuildIffChanged ==
    (last.op = "set_halo_density_profile" /\ ~RejectedByValidation) =>
        /\ last.rebuilt <=>
              \/ ~last.pre.hdpm.built
              \/ ~EqualIgnoringCase(last.args.halo_profile_model,
                                    last.pre.halo_profile_model)
              \/ ~EqualIgnoringCase(last.args.massdef, last.pre.massdef)
              \/ last.args.delta_mdef # last.pre.delta_mdef
        /\ ~last.rebuilt => self = last.pre
        /\ last.rebuilt =>
              /\ self.halo_profile_model \in LowerCaseNames
              /\ self.massdef \in LowerCaseNames
              /\ EqualIgnoringCase(self.halo_profile_model, last.args.halo_profile_model)
              /\ EqualIgnoringCase(self.massdef, last.args.massdef)
              /\ self.delta_mdef = last.args.delta_mdef

\* a configured model is handed the triple it already has, in another case
C3_Witness_NoRebuild ==
    /\ last.op = "set_halo_density_profile"
    /\ last.exc = "none"
    /\ ~last.rebuilt
    /\ last.pre.hdpm.built
    /\ last.args.halo_profile_model = "NFW"
    /\ last.pre.halo_profile_model = "nfw"

\* C4: after a profile setter has returned without error the stored mass
\* definition and profile family are among the supported ones.
C4_StoredNamesSupported ==
    (last.op \in SetterOps /\ last.exc = "none") =>
        /\ self.massdef \in mdef_dict
        /\ self.halo_profile_model \in hdpm_dict

\* C5: with validation on, a setter call with an unsupported name, a
\* non-positive overdensity, mass or concentration raises and changes nothing.
C5_RejectedCallHasNoEffect ==
    /\ (/\ last.pre.validate_input
        /\ last.op = "set_halo_density_profile"
        /\ \/ \A md \in mdef_dict : ~EqualIgnoringCase(md, last.args.massdef)
           \/ \A hp \in hdpm_dict : ~EqualIgnoringCase(hp, last.args.halo_profile_model)
           \/ last.args.delta_mdef <= 0)
       => (last.exc = "ValueError" /\ ~last.rebuilt /\ self = last.pre)
    /\ (/\ last.pre.validate_input
        /\ last.op \in {"set_mass", "set_concentration"}
        /\ last.args.value <= 0)
       => (last.exc = "ValueError" /\ ~last.rebuilt /\ self = last.pre)

\* a configured model rejects an unsupported mass definition
C5_Witness_Rejected ==
    /\ last.op = "set_halo_density_profile"
    /\ last.pre.validate_input
    /\ last.pre.hdpm.built
    /\ last.args.massdef = "bleh"
    /\ last.exc = "ValueError"

(***************************************************************************)
(* Properties of the profile functions.                                    *)
(***************************************************************************)
AllPositive(x) == \A i \in DOMAIN x.v : x.v[i] > 0

AllNonNegative(x) == \A i \in DOMAIN x.v : x.v[i] >= 0

ProfileCall == last.op \in ProfileFunctions /\ last.pre.validate_input

C7_ZeroAndNegativeRaise ==
    /\ (last.pre.validate_input /\ last.op \in {"set_mass", "set_concentration"}
        /\ last.args.value = 0)
       => last.exc = "ValueError"
    /\ (ProfileCall /\ \E i \in DOMAIN last.args.r.v : last.args.r.v[i] <= 0)
       => (last.exc = "ValueError" /\ last.ret = <<>>)

\* an array whose smallest radius is 0 is rejected
C7_Witness_ArrayWithZero ==
    /\ ProfileCall
    /\ last.args.r.cont = "list"
    /\ \E i \in DOMAIN last.args.r.v : last.args.r.v[i] = 0
    /\ \A i \in DOMAIN last.args.r.v : last.args.r.v[i] >= 0
    /\ \E i \in DOMAIN last.args.r.v : last.args.r.v[i] > 0
    /\ last.exc = "ValueError"

(***************************************************************************)
(* Properties of the lensing observables.                                  *)
(***************************************************************************)
LensCall == last.op \in LensFunctions

\* the value the spec gives to a source that is not behind the cluster
NullValue(func) ==
    IF func \in {"eval_magnification", "eval_magnification_bias"} THEN <<1, 1>> ELSE <<0, 1>>

DiscreteCall ==
    /\ LensCall
    /\ last.args.z_src_info = "discrete"
    /\ last.args.approx = "None"

ForegroundSource(i) ==
    (IF Len(last.args.z_src.v) = 1 THEN last.args.z_src.v[1] ELSE last.args.z_src.v[i])
        <= last.args.z_cl.v[1]

ResultLen ==
    IF Len(last.args.r.v) >= Len(last.args.z_src.v)
    THEN Len(last.args.r.v) ELSE Len(last.args.z_src.v)

PassesValidation ==
    last.pre.validate_input =>
        (AllPositive(last.args.r) /\ AllPositive(last.args.z_cl)
         /\ AllPositive(last.args.z_src))

ApproxCall ==
    last.op \in {"eval_reduced_tangential_shear", "eval_magnification",
                 "eval_magnification_bias"}

SupportedCombination(z_src_info, approx) ==
    \/ approx \in {"order1", "order2"} /\ z_src_info \in {"distribution", "beta"}
    \/ approx = "None" /\ z_src_info \in {"discrete", "distribution"}

\* C2: with validation on, a call returns only for a supported
\* (z_src_info, approx) pair, and every other pair ends in ValueError.
C2_UnsupportedCombinationIsValueError ==
    (/\ ApproxCall
     /\ last.pre.validate_input
     /\ AllPositive(last.args.r)
     /\ AllPositive(last.args.z_cl)
     /\ last.args.z_src_info = "discrete" => AllPositive(last.args.z_src))
    => /\ last.exc = "none"
            => SupportedCombination(last.args.z_src_info, last.args.approx)
       /\ ~SupportedCombination(last.args.z_src_info, last.args.approx)
            => (last.exc = "ValueError" /\ last.ret = <<>>)

BetaArg(k) == Rat(last.args.z_src.v[k], BetaUnit)

\* the result of the last call, had it been made with approx='order1'
Order1Result ==
    eval_magnification_bias(last.pre, last.args.r, last.args.z_cl, last.args.z_src,
                            last.args.alpha, last.args.z_src_info, "order1",
                            last.args.kw).ret

BetaOrder2BiasCall ==
    /\ last.op = "eval_magnification_bias"
    /\ last.args.z_src_info = "beta"
    /\ last.args.approx = "order2"
    /\ last.exc = "none"

\* C8 as stated: for z_src_info='beta', when beta_s_square_mean is the square
\* of beta_s_mean the order2 magnification bias equals the order1 one.
C8_Order2EqualsOrder1 ==
    (BetaOrder2BiasCall /\ BetaArg(2) = RMul(BetaArg(1), BetaArg(1)))
        => last.ret = Order1Result

\* the second-order terms of the magnification bias at radius i
SecondOrderTerms(i) ==
    LET g == AtInfinity(last.pre, "eval_tangential_shear", last.args.r, last.args.z_cl)[i]
        k == AtInfinity(last.pre, "eval_convergence", last.args.r, last.args.z_cl)[i]
        a == last.args.alpha
    IN  RMul(BetaArg(2),
             RAdd(RMul(RInt(a - 1), RMul(g, g)),
                  RMul(RInt((2 * a - 1) * (a - 1)), RMul(k, k))))

\* C8 amended: for z_src_info='beta', whenever the call returns, the order2
\* magnification bias is the order1 one plus
\* beta_s_square_mean*((alpha-1)*gammat_inf^2 + (2alpha-1)(alpha-1)*kappa_inf^2),
\* also when beta_s_square_mean = beta_s_mean^2; the two are equal when
\* alpha = 1.
C8_Order2IsOrder1PlusSecondOrderTerms ==
    BetaOrder2BiasCall =>
        /\ Len(last.ret) = Len(Order1Result)
        /\ \A i \in DOMAIN last.ret :
              last.ret[i] = RAdd(Order1Result[i], SecondOrderTerms(i))
        /\ last.args.alpha = 1 => last.ret = Order1Result

\* beta_s_square_mean = beta_s_mean^2 and still the two orders differ
C8_Witness_SquareButDifferent ==
    /\ BetaOrder2BiasCall
    /\ BetaArg(2) = RMul(BetaArg(1), BetaArg(1))
    /\ last.args.alpha = 2
    /\ AllPositive(last.args.r)
    /\ AllPositive(last.args.z_cl)
    /\ \E i \in DOMAIN last.ret :
          IsFinite(last.ret[i]) /\ RLess(Order1Result[i], last.ret[i])

\* C9: with validation on, eval_tangential_shear and eval_convergence with
\* z_src_info='beta' and a pair of numbers return beta_s_mean times the
\* observable at z_inf, and integrate nothing.
C9_BetaPairAccepted ==
    (/\ last.op \in {"eval_tangential_shear", "eval_convergence"}
     /\ last.pre.validate_input
     /\ last.args.z_src_info = "beta"
     /\ AllPositive(last.args.r)
     /\ AllPositive(last.args.z_cl))
    => /\ last.exc = "none"
       /\ last.quads = <<>>
       /\ last.ret = [i \in DOMAIN last.args.r.v |->
                        RMul(BetaArg(1),
                             AtInfinity(last.pre, last.op, last.args.r, last.args.z_cl)[i])]

\* the bounds the documentation promises for the last call
PromisedZmin ==
    IF "zmin" \in DOMAIN last.args.kw /\ last.args.kw["zmin"] # NoneZ
    THEN last.args.kw["zmin"]
    ELSE last.args.z_cl.v[1]
            + (IF "delta_z_cut" \in DOMAIN last.args.kw
               THEN last.args.kw["delta_z_cut"] ELSE 1)

PromisedZmax ==
    IF "zmax" \in DOMAIN last.args.kw THEN last.args.kw["zmax"] ELSE 100

\* C10: every integral over the source distribution runs from zmin, or from
\* z_cl + delta_z_cut (default 0.1) when zmin is absent or None, to zmax
\* (default 10.0), numerator and denominator alike.
C10_IntegrationBounds ==
    (LensCall /\ last.args.z_src_info = "distribution") =>
        \A i \in DOMAIN last.quads :
            /\ last.quads[i].lo = PromisedZmin
            /\ last.quads[i].hi = PromisedZmax

(***************************************************************************)
(* The geometric lensing efficiency of utils.py.  The cosmology is         *)
(* external: a flat universe whose comoving distance to redshift z (in     *)
(* tenths) is z*(h - z), so that D_A(z1, z2) = (chi(z2) - chi(z1))/(1+z2). *)
(***************************************************************************)
MaxSourceZ == 5

Cosmologies == {30, 40}

comoving_distance(cosmo, z) == z * (cosmo - z)

\* cosmo.eval_da_z1z2(z1, z2)
eval_da_z1z2(cosmo, z1, z2) ==
    Rat(10 * (comoving_distance(cosmo, z2) - comoving_distance(cosmo, z1)), 10 + z2)

\* cosmo.eval_da(z)
eval_da(cosmo, z) == eval_da_z1z2(cosmo, 0, z)

\* np.heaviside(x, 0)
heaviside(x) == IF x > 0 THEN ROne ELSE RZero

\* utils.compute_beta
compute_beta(z_s, z_cl, cosmo) ==
    RDiv(RMul(heaviside(z_s - z_cl), eval_da_z1z2(cosmo, z_cl, z_s)), eval_da(cosmo, z_cl))

\* utils.compute_beta_s
compute_beta_s(z_s, z_cl, z_inf, cosmo) ==
    RDiv(compute_beta(z_s, z_cl, cosmo), compute_beta(z_inf, z_cl, cosmo))

BetaArgs(z_s, z_cl, z_inf, cosmo) ==
    [z_s |-> z_s, z_cl |-> z_cl, z_inf |-> z_inf, cosmo |-> cosmo]

ComputeBeta ==
    /\ Ready
    /\ \E z_s \in 1..MaxSourceZ, z_cl \in 1..MaxSourceZ, cosmo \in Cosmologies :
          last' = Done("compute_beta", BetaArgs(z_s, z_cl, ZInf, cosmo),
                       Return(self, <<compute_beta(z_s, z_cl, cosmo)>>))
    /\ UNCHANGED self

ComputeBetaS ==
    /\ Ready
    /\ \E z_s \in 1..MaxSourceZ, z_cl \in 1..MaxSourceZ, cosmo \in Cosmologies :
          last' = Done("compute_beta_s", BetaArgs(z_s, z_cl, ZInf, cosmo),
                       Return(self, <<compute_beta_s(z_s, z_cl, ZInf, cosmo)>>))
    /\ UNCHANGED self

NextBeta ==
    \/ ComputeBeta
    \/ ComputeBetaS
    \/ TakeResult

SpecBeta == Init /\ [][NextBeta]_vars

\* C11: compute_beta(z_s, z_cl) is D_A(z_cl, z_s) / D_A(z_s) for z_s > z_cl
\* and 0 for z_s <= z_cl; compute_beta_s is compute_beta(z_s, z_cl) divided
\* by compute_beta(z_inf, z_cl), and 0 for z_s <= z_cl.
C11_BetaIsLensSourceOverSource ==
    /\ last.op = "compute_beta" =>
          last.ret[1] =
              IF last.args.z_s > last.args.z_cl
              THEN RDiv(eval_da_z1z2(last.args.cosmo, last.args.z_cl, last.args.z_s),
                        eval_da(last.args.cosmo, last.args.z_s))
              ELSE RZero
    /\ last.op = "compute_beta_s" =>
          /\ last.ret[1] = RDiv(compute_beta(last.args.z_s, last.args.z_cl, last.args.cosmo),
                                compute_beta(last.args.z_inf, last.args.z_cl, last.args.cosmo))
          /\ last.args.z_s <= last.args.z_cl => last.ret[1] = RZero

(***************************************************************************)
(* Operations that depend on the backend or on the profile family: the     *)
(* two-halo terms and the Einasto slope.                                   *)
(***************************************************************************)
Backends == {"None", "ct", "ccl", "nc"}

\* a call of validate_argument with the keyword shape=(2,), which its
\* signature does not have: Python raises TypeError before the body runs
validate_argument_shape(var, valid_type, shape) == "TypeError"

\* the validation block of the two-halo functions, the tuples and step
\* counts at their defaults
validate_2h_args(m, r, z_cl, halobias) ==
    IF ~m.validate_input THEN "ok"
    ELSE FirstError(<<validate_argument(r, "float_array", FALSE, 0, FALSE),
                      validate_argument(z_cl, "float", FALSE, 0, FALSE),
                      validate_argument(Scalar(halobias), "float", FALSE, 0, FALSE),
                      validate_argument_shape(Tuple(<<-5, 5>>), "tuple", 2)>>)

\* eval_excess_surface_density_2h and eval_surface_density_2h; the value of
\* the Hankel-type integral is not modelled
eval_2h(m, func, r, z_cl, halobias) ==
    LET chk == validate_2h_args(m, r, z_cl, halobias)
    IN  IF chk # "ok" THEN Raise(m, chk)
        ELSE IF m.backend \notin {"ccl", "nc"} THEN Raise(m, "NotImplementedError")
        ELSE Return(m, [i \in DOMAIN r.v |-> func])

\* a backend's _set_einasto_alpha
_set_einasto_alpha(m, alpha) == [m EXCEPT !.einasto_alpha = alpha]

\* a backend's _get_einasto_alpha
_get_einasto_alpha(m) == m.einasto_alpha

set_einasto_alpha_any_profile(m, alpha) ==
    LET chk == IF m.validate_input
               THEN validate_argument(alpha, "float", TRUE, NoBound, FALSE)
               ELSE "ok"
    IN  IF chk # "ok" THEN Raise(m, chk)
        ELSE Return(_set_einasto_alpha(m, alpha), <<>>)

set_einasto_alpha(m, alpha) ==
    IF m.halo_profile_model # "einasto" THEN Raise(m, "NotImplementedError")
    ELSE LET chk == IF m.validate_input
                    THEN validate_argument(alpha, "float", TRUE, NoBound, FALSE)
                    ELSE "ok"
         IN  IF chk # "ok" THEN Raise(m, chk)
             ELSE Return(_set_einasto_alpha(m, alpha), <<>>)

get_einasto_alpha(m) ==
    IF m.halo_profile_model # "einasto" THEN Raise(m, "ValueError")
    ELSE Return(m, <<_get_einasto_alpha(m)>>)

HalobiasInputs == {0, 1}

AlphaInputs == {NoneVal, Scalar(1), Scalar(2), StrVal}

TwoHaloFunctions == {"eval_excess_surface_density_2h", "eval_surface_density_2h"}

\* a backend's model, fresh or with the default profile set
InitBackend ==
    /\ \E validate_input \in BOOLEAN, backend \in Backends, configured \in BOOLEAN :
          LET m == [NewModel(validate_input) EXCEPT !.backend = backend]
          IN  self = IF configured
                     THEN set_halo_density_profile(m, "nfw", "mean", 200).m
                     ELSE m
    /\ last = Idle(self)

Eval2h ==
    /\ Ready
    /\ \E func \in TwoHaloFunctions, r \in ScalarOrArray(RadiusValues),
          z_cl \in ClusterRedshifts, halobias \in HalobiasInputs :
        LET o == eval_2h(self, func, r, Scalar(z_cl), halobias)
        IN  /\ self' = o.m
            /\ last' = Done(func, [r |-> r, z_cl |-> Scalar(z_cl), halobias |-> halobias], o)

SetEinastoAlpha ==
    /\ Ready
    /\ \E alpha \in AlphaInputs :
        LET o == set_einasto_alpha(self, alpha)
        IN  /\ self' = o.m
            /\ last' = Done("set_einasto_alpha", [alpha |-> alpha], o)

GetEinastoAlpha ==
    /\ Ready
    /\ LET o == get_einasto_alpha(self)
       IN  /\ self' = o.m
           /\ last' = Done("get_einasto_alpha", [alpha |-> NoneVal], o)

NextBackend ==
    \/ SetHaloProfileModel
    \/ Eval2h
    \/ SetEinastoAlpha
    \/ GetEinastoAlpha
    \/ TakeResult

SpecBackend == InitBackend /\ [][NextBackend]_vars

\* C12: with valid arguments the two-halo functions raise NotImplementedError
\* and compute nothing when the backend is neither 'ccl' nor 'nc', and do not
\* raise it for 'ccl' and 'nc'.
C12_TwoHaloNeedsCclOrNc ==
    (/\ last.op \in TwoHaloFunctions
     /\ AllPositive(last.args.r)
     /\ AllPositive(last.args.z_cl)
     /\ last.args.halobias > 0)
    => /\ last.pre.backend \notin {"ccl", "nc"}
            => (last.exc = "NotImplementedError" /\ last.ret = <<>>)
       /\ last.pre.backend \in {"ccl", "nc"} => last.exc # "NotImplementedError"

\* C13: while the profile family is not 'einasto', set_einasto_alpha raises
\* NotImplementedError and leaves the object as it was and get_einasto_alpha
\* raises ValueError; while it is 'einasto', the setter accepts a float or
\* None and stores it, and rejects anything else.
C13_EinastoSlopeOnlyForEinasto ==
    /\ (last.op = "set_einasto_alpha" /\ last.pre.halo_profile_model # "einasto")
        => (last.exc = "NotImplementedError" /\ self = last.pre)
    /\ (last.op = "get_einasto_alpha" /\ last.pre.halo_profile_model # "einasto")
        => (last.exc = "ValueError" /\ last.ret = <<>>)
    /\ (last.op = "set_einasto_alpha" /\ last.pre.halo_profile_model = "einasto")
        => IF last.pre.validate_input /\ last.args.alpha = StrVal
           THEN last.exc = "TypeError" /\ self = last.pre
           ELSE /\ last.exc = "none"
                /\ self = [last.pre EXCEPT !.einasto_alpha = last.args.alpha]
    /\ (last.op = "get_einasto_alpha" /\ last.pre.halo_profile_model = "einasto")
        => (last.exc = "none" /\ last.ret = <<last.pre.einasto_alpha>>)

\* the family was switched away from 'einasto' after a slope was stored, and
\* the setter is refused
C13_Witness_SwitchedAway ==
    /\ last.op = "set_einasto_alpha"
    /\ last.exc = "NotImplementedError"
    /\ last.pre.halo_profile_model = "nfw"
    /\ last.pre.einasto_alpha = Scalar(2)
    /\ last.args.alpha = Scalar(1)

(***************************************************************************)
(* Binning: utils.compute_radial_averages.  Values are rationals, NaN      *)
(* included.  A square root is held as its radicand (NaN when that is      *)
(* negative): sqrt is increasing, so two errors compare as their radicands *)
(* do.  scipy's binned_statistic and np.histogram are modelled by their    *)
(* documented binning: half-open bins, the last one closed, 0 below the    *)
(* first edge and len(xbins) above the last.                               *)
(***************************************************************************)
MaxRows == 3

NaN == <<0, 0>>

\* the array with the n elements f[1], ..., f[n], each computed once
RECURSIVE array(_, _)
array(f, n) == IF n = 0 THEN <<>> ELSE Append(array(f, n - 1), f[n])

RECURSIVE RSum(_)
RSum(s) == IF s = <<>> THEN RZero ELSE RAdd(Head(s), RSum(Tail(s)))

\* a[filt] for a boolean mask
RECURSIVE compress(_, _)
compress(a, filt) ==
    IF a = <<>> THEN <<>>
    ELSE (IF Head(filt) THEN <<Head(a)>> ELSE <<>>) \o compress(Tail(a), Tail(filt))

\* the bin index scipy.stats.binned_statistic assigns to x
digitize(x, xbins) ==
    LET k == Len(xbins) - 1
    IN  IF RLess(x, xbins[1]) THEN 0
        ELSE IF RLess(xbins[k + 1], x) THEN k + 1
        ELSE IF x = xbins[k + 1] THEN k
        ELSE CHOOSE i \in 1..k : ~RLess(x, xbins[i]) /\ RLess(x, xbins[i + 1])

\* binned_statistic(x, vals, statistic='sum', bins=xbins)[0]
binned_sum(binnumber, values, nbins) ==
    LET vals == array(values, Len(binnumber))
    IN  array([b \in 1..nbins |->
                  RSum(array([i \in 1..Len(vals) |->
                                 IF binnumber[i] = b THEN vals[i] ELSE RZero],
                             Len(vals)))], nbins)

\* np.sqrt
sqrt(x) == IF IsNaN(x) \/ RLess(x, RZero) THEN NaN ELSE x

default_weights_zeros(n) == array([i \in 1..n |-> RZero], n)

\* np.ones(x.size)
default_weights(n) == array([i \in 1..n |-> ROne], n)

ste_factor_count(error_model, wts, binnumber, nbins) ==
    IF error_model = "ste"
    THEN binned_sum(binnumber, [i \in DOMAIN wts |-> ROne], nbins)
    ELSE array([b \in 1..nbins |-> ROne], nbins)

\* what stat_yerr2 is multiplied by: the sum of the squared normalised
\* weights of the bin for 'ste', nothing for 'std'
ste_factor(error_model, wts, binnumber, nbins) ==
    IF error_model = "ste"
    THEN binned_sum(binnumber, [i \in DOMAIN wts |-> RMul(wts[i], wts[i])], nbins)
    ELSE [b \in 1..nbins |-> ROne]

NoWeights == <<"None">>

\* utils.compute_radial_averages; yerr and weights are NoWeights for None
compute_radial_averages(xvals, yvals, xbins, yerr, error_model_in, weights) ==
    LET error_model == lower(error_model_in)
        filt == array([i \in DOMAIN xvals |-> IsFinite(xvals[i]) /\ IsFinite(yvals[i])],
                      Len(xvals))
        x == compress(xvals, filt)
        y == compress(yvals, filt)
        n == Len(x)
        wts0 == IF weights = NoWeights THEN default_weights(n)
                ELSE compress(weights, filt)
        nbins == Len(xbins) - 1
        binnumber == array([i \in 1..n |-> digitize(x[i], xbins)], n)
        wts_sum == binned_sum(binnumber, wts0, nbins)
        wts == array([i \in 1..n |->
                         IF binnumber[i] > 0 /\ binnumber[i] <= nbins
                         THEN RMul(wts0[i], RDiv(ROne, wts_sum[binnumber[i]]))
                         ELSE wts0[i]], n)
        mean_x == binned_sum(binnumber, [i \in 1..n |-> RMul(x[i], wts[i])], nbins)
        mean_y == binned_sum(binnumber, [i \in 1..n |-> RMul(y[i], wts[i])], nbins)
        data_yerr2 ==
            IF yerr = NoWeights THEN array([b \in 1..nbins |-> RZero], nbins)
            ELSE LET e == compress(yerr, filt)
                 IN  binned_sum(binnumber,
                                [i \in 1..n |->
                                    RMul(RMul(RMul(e[i], e[i]), wts[i]), wts[i])], nbins)
        y2 == binned_sum(binnumber,
                         [i \in 1..n |-> RMul(RMul(y[i], y[i]), wts[i])], nbins)
        factor == ste_factor(error_model, wts, binnumber, nbins)
        stat_yerr2 == [b \in 1..nbins |->
                          RMul(RSub(y2[b], RMul(mean_y[b], mean_y[b])), factor[b])]
        num_objects == [b \in 1..nbins |->
                           Cardinality({i \in 1..n : binnumber[i] = b})]
    IN  IF error_model \notin {"ste", "std"}
        THEN [exc |-> "ValueError"]
        ELSE [exc |-> "none", mean_x |-> mean_x, mean_y |-> mean_y,
              err_y |-> array([b \in 1..nbins |->
                                  sqrt(RAdd(stat_yerr2[b], data_yerr2[b]))], nbins),
              num_objects |-> array(num_objects, nbins), binnumber |-> binnumber]

RowInputs ==
    {<<NaN, RInt(0)>>, <<RInt(1), NaN>>, <<RInt(1), RInt(0)>>,
     <<RInt(1), RInt(1)>>, <<RInt(1), RInt(2)>>, <<RInt(3), RInt(1)>>}

\* weights whose sum over the rows of a bin is never zero
WeightInputs == {RInt(3), RInt(4), RInt(-5)}

BinEdges == {<<RInt(0), RInt(2), RInt(4)>>, <<RInt(2), RInt(4)>>}

ErrorModels == {"ste", "std", "STE", "mad"}

ones(n) == [i \in 1..n |-> ROne]

AveragesArgs(xvals, yvals, xbins, yerr, error_model, weights) ==
    [xvals |-> xvals, yvals |-> yvals, xbins |-> xbins, yerr |-> yerr,
     error_model |-> error_model, weights |-> weights]

ComputeRadialAverages ==
    /\ Ready
    /\ \E n \in 1..MaxRows :
         \E rows \in [1..n -> RowInputs],
            xbins \in BinEdges, yerr \in {NoWeights, ones(n)},
            error_model \in ErrorModels,
            weights \in {NoWeights} \cup [1..n -> WeightInputs] :
              LET xvals == [i \in 1..n |-> rows[i][1]]
                  yvals == [i \in 1..n |-> rows[i][2]]
              IN  last' = Done("compute_radial_averages",
                               AveragesArgs(xvals, yvals, xbins, yerr, error_model, weights),
                               Return(self, compute_radial_averages(
                                   xvals, yvals, xbins, yerr, error_model, weights)))
    /\ UNCHANGED self

NextBinning ==
    \/ ComputeRadialAverages
    \/ TakeResult

InitBinning ==
    /\ self = NewModel(TRUE)
    /\ last = Idle(self)

SpecBinning == InitBinning /\ [][NextBinning]_vars

AveragesCall == last.op = "compute_radial_averages"

\* C14: a call of compute_radial_averages without weights returns what the
\* same call returns with a weight of one for every row: the same mean_x,
\* mean_y, err_y, num_objects and binnumber, or the same refusal, whatever
\* the rows, bin edges, errors on y and error model.
C14_NoWeightsIsUnitWeights ==
    (AveragesCall /\ last.args.weights = NoWeights)
        => last.ret = compute_radial_averages(
                          last.args.xvals, last.args.yvals, last.args.xbins,
                          last.args.yerr, last.args.error_model,
                          ones(Len(last.args.xvals)))

\* an unweighted call with errors on y, a row that is not finite and a bin
\* of two rows with different y
C14_Witness_UnweightedWithGap ==
    /\ AveragesCall
    /\ last.args.weights = NoWeights
    /\ last.args.yerr # NoWeights
    /\ last.exc = "none" /\ last.ret.exc = "none"
    /\ \E i \in DOMAIN last.args.xvals : IsNaN(last.args.xvals[i])
    /\ \E b \in DOMAIN last.ret.num_objects :
          /\ last.ret.num_objects[b] = 2
          /\ last.ret.err_y[b] # NaN
          /\ last.ret.err_y[b] # RZero


\* the same call with another error model
WithErrorModel(error_model) ==
    compute_radial_averages(last.args.xvals, last.args.yvals, last.args.xbins,
                            last.args.yerr, error_model, last.args.weights)

\* a <= b for two square roots held as radicands; false when either is NaN
ErrLeq(a, b) == ~IsNaN(a) /\ ~IsNaN(b) /\ ~RLess(b, a)

SteWithinStd ==
    \A b \in DOMAIN last.ret.num_objects :
        last.ret.num_objects[b] > 1
            => ErrLeq(WithErrorModel("ste").err_y[b], WithErrorModel("std").err_y[b])

\* C15 as stated: in every bin of more than one member, the err_y of the
\* 'ste' error model is at most the err_y of the 'std' error model for the
\* same rows, bin edges, errors on y and weights.
C15_SteAtMostStd ==
    (AveragesCall /\ last.ret.exc = "none") => SteWithinStd

PositiveWeights ==
    \/ last.args.weights = NoWeights
    \/ \A i \in DOMAIN last.args.weights : RLess(RZero, last.args.weights[i])

\* C15, amended: when no weight is given or every weight is positive, in
\* every bin of more than one member the err_y of 'ste' is at most the err_y
\* of 'std' for the same rows, bin edges, errors on y and weights.
C15_SteAtMostStdForPositiveWeights ==
    (AveragesCall /\ last.ret.exc = "none" /\ PositiveWeights) => SteWithinStd

\* unequal positive weights and errors on y, in a bin of three rows whose y
\* differ: 'ste' is strictly below 'std'
C15_Witness_WeightedBinOfThree ==
    /\ AveragesCall /\ last.ret.exc = "none"
    /\ PositiveWeights
    /\ last.args.weights # NoWeights
    /\ \E i, j \in DOMAIN last.args.weights : last.args.weights[i] # last.args.weights[j]
    /\ last.args.yerr # NoWeights
    /\ \E b \in DOMAIN last.ret.num_objects :
          /\ last.ret.num_objects[b] = 3
          /\ RLess(WithErrorModel("ste").err_y[b], WithErrorModel("std").err_y[b])

\* C16 as stated: the binnumber returned by compute_radial_averages has one
\* entry for each input row, the rows that are not finite included.
C16_BinnumberHasOneEntryPerRow ==
    (AveragesCall /\ last.ret.exc = "none")
        => Len(last.ret.binnumber) = Len(last.args.yvals)


(***************************************************************************)
(* Bin edges: utils.make_bins.  The edges of 'evenlog10width' are powers   *)
(* of ten whose exponents need not be integers, so a result carries a      *)
(* scale: an edge is binedges[i] for scale "linear" and 10**binedges[i]    *)
(* for scale "log10" (np.logspace(a, b, n) is 10**np.linspace(a, b, n)).   *)
(***************************************************************************)
MaxDecade == 2

RECURSIVE IPow(_, _)
IPow(b, n) == IF n = 0 THEN 1 ELSE b * IPow(b, n - 1)

\* np.log10 of the radii used here: 0 and the powers of ten up to 10**MaxDecade
log10(x) ==
    IF x = RZero THEN <<-1, 0>>
    ELSE RInt(CHOOSE e \in 0..MaxDecade : x = RInt(IPow(10, e)))

linspace_no_endpoint(start, stop, num) ==
    LET step == RDiv(RSub(stop, start), RInt(num))
    IN  array([i \in 1..num |-> RAdd(RMul(RInt(i - 1), step), start)], num)

\* np.linspace(start, stop, num, endpoint=True) for num >= 2
linspace(start, stop, num) ==
    LET step == RDiv(RSub(stop, start), RInt(num - 1))
    IN  array([i \in 1..num |->
                  IF i = num THEN stop ELSE RAdd(RMul(RInt(i - 1), step), start)], num)

\* np.percentile(a, q) with linear interpolation; nan for an empty array
percentile(a, q) ==
    LET s == SortSeq(a, LAMBDA u, v : RLess(u, v))
        h == RMul(RInt(Len(s) - 1), RDiv(q, RInt(100)))
        lo == h[1] \div h[2]
    IN  IF s = <<>> THEN NaN
        ELSE IF lo + 1 >= Len(s) THEN s[Len(s)]
        ELSE RAdd(s[lo + 1], RMul(RSub(h, RInt(lo)), RSub(s[lo + 2], s[lo + 1])))

NoEdges == [exc |-> "ValueError", scale |-> "linear", binedges |-> <<>>]

Edges(scale, binedges) == [exc |-> "none", scale |-> scale, binedges |-> binedges]

\* utils.make_bins; nbins is [ety, v] (int or float), source_seps is
\* NoWeights for None
make_bins(rmin, rmax, nbins, method_in, source_seps) ==
    LET method == lower(method_in)
    IN  IF RLess(rmax, rmin) \/ RLess(rmin, RZero) \/ RLess(rmax, RZero)
        THEN NoEdges
        ELSE IF nbins.v <= 0 \/ nbins.ety # "int"
        THEN NoEdges
        ELSE IF method = "evenwidth"
        THEN Edges("linear", linspace(rmin, rmax, nbins.v + 1))
        ELSE IF method = "evenlog10width"
        THEN Edges("log10", linspace(log10(rmin), log10(rmax), nbins.v + 1))
        ELSE IF method = "equaloccupation"
        THEN IF source_seps = NoWeights
             THEN NoEdges
             ELSE LET seps == SelectSeq(source_seps,
                                  LAMBDA s : ~RLess(s, rmin) /\ ~RLess(rmax, s))
                      q == linspace(RZero, RInt(100), nbins.v + 1)
                  IN  Edges("linear", [i \in DOMAIN q |-> percentile(seps, q[i])])
        ELSE NoEdges

RadiusInputs == {RInt(-1), RInt(0), RInt(1), RInt(10), RInt(100)}

NbinsInputs ==
    [ety : {"int"}, v : {-1, 0, 1, 2, 5}] \cup {[ety |-> "float", v |-> 2]}

BinningMethods ==
    {"evenwidth", "EvenWidth", "evenlog10width", "equaloccupation", "evenarea"}

SourceSepsInputs == {NoWeights, <<RInt(10), RInt(1), RInt(2)>>}

MakeBinsArgs(rmin, rmax, nbins, method, source_seps) ==
    [rmin |-> rmin, rmax |-> rmax, nbins |-> nbins, method |-> method,
     source_seps |-> source_seps]

MakeBins ==
    /\ Ready
    /\ \E rmin \in RadiusInputs, rmax \in RadiusInputs, nbins \in NbinsInputs,
          method \in BinningMethods, source_seps \in SourceSepsInputs :
            last' = Done("make_bins",
                         MakeBinsArgs(rmin, rmax, nbins, method, source_seps),
                         Return(self, make_bins(rmin, rmax, nbins, method, source_seps)))
    /\ UNCHANGED self

NextBins ==
    \/ MakeBins
    \/ TakeResult

SpecBins == InitBinning /\ [][NextBins]_vars


MakeBinsCall == last.op = "make_bins"

\* the log10 of the edges, or the edges, are equally spaced from the first
\* edge `first` to the last edge `final`, nbins + 1 of them
EvenlySpaced(e, nbins, first, final) ==
    /\ Len(e) = nbins + 1
    /\ e[1] = first
    /\ e[nbins + 1] = final
    /\ \A i \in 1..nbins : IsFinite(e[i]) /\ IsFinite(e[i + 1])
    /\ \A i, j \in 1..nbins : RSub(e[i + 1], e[i]) = RSub(e[j + 1], e[j])

StrictlyIncreasing(e) == \A i \in 1..(Len(e) - 1) : RLess(e[i], e[i + 1])

BinsExamples ==
    /\ make_bins(RInt(0), RInt(10), [ety |-> "int", v |-> 5], "evenwidth", NoWeights)
         = Edges("linear", <<RInt(0), RInt(2), RInt(4), RInt(6), RInt(8), RInt(10)>>)
    /\ make_bins(RInt(1), RInt(100), [ety |-> "int", v |-> 2], "evenlog10width", NoWeights)
         = Edges("log10", <<log10(RInt(1)), log10(RInt(10)), log10(RInt(100))>>)

CaseInsensitive ==
    MakeBinsCall =>
        last.ret = make_bins(last.args.rmin, last.args.rmax, last.args.nbins,
                             lower(last.args.method), last.args.source_seps)

EvenWidthEdges ==
    /\ EvenlySpaced(last.ret.binedges, last.args.nbins.v, last.args.rmin, last.args.rmax)
    /\ StrictlyIncreasing(last.ret.binedges)

EvenLog10WidthEdges ==
    /\ last.ret.scale = "log10"
    /\ EvenlySpaced(last.ret.binedges, last.args.nbins.v,
                    log10(last.args.rmin), log10(last.args.rmax))

\* C17 as stated: make_bins with 'evenwidth' returns nbins+1 strictly
\* increasing, equally spaced edges from rmin to rmax ([0,2,4,6,8,10] for
\* 0, 10, 5); with 'evenlog10width' nbins+1 edges of constant ratio from
\* rmin to rmax ([1,10,100] for 1, 100, 2); the case of the method name
\* does not matter.
C17_EvenEdges ==
    /\ BinsExamples
    /\ CaseInsensitive
    /\ (MakeBinsCall /\ last.ret.exc = "none" /\ lower(last.args.method) = "evenwidth")
          => EvenWidthEdges
    /\ (MakeBinsCall /\ last.ret.exc = "none" /\ lower(last.args.method) = "evenlog10width")
          => EvenLog10WidthEdges

\* C17, amended: 'evenwidth' returns nbins+1 equally spaced edges from rmin
\* to rmax, strictly increasing when rmin < rmax (all equal when
\* rmin = rmax); 'evenlog10width' with rmin > 0 returns nbins+1 edges of
\* constant ratio from rmin to rmax; the examples and the case-insensitivity
\* are as stated.
C17_EvenEdgesForProperRange ==
    /\ BinsExamples
    /\ CaseInsensitive
    /\ (MakeBinsCall /\ last.ret.exc = "none" /\ lower(last.args.method) = "evenwidth")
          => /\ last.ret.scale = "linear"
             /\ EvenlySpaced(last.ret.binedges, last.args.nbins.v,
                             last.args.rmin, last.args.rmax)
             /\ RLess(last.args.rmin, last.args.rmax)
                   => StrictlyIncreasing(last.ret.binedges)
             /\ last.args.rmin = last.args.rmax
                   => \A i \in DOMAIN last.ret.binedges :
                          last.ret.binedges[i] = last.args.rmin
    /\ (MakeBinsCall /\ last.ret.exc = "none"
           /\ lower(last.args.method) = "evenlog10width"
           /\ RLess(RZero, last.args.rmin))
          => EvenLog10WidthEdges

\* five bins from 0 to 10 asked for as 'EvenWidth'
C17_Witness_MixedCaseEvenWidth ==
    /\ MakeBinsCall
    /\ last.args.method = "EvenWidth"
    /\ last.args.rmin = RInt(0) /\ last.args.rmax = RInt(10)
    /\ last.args.nbins = [ety |-> "int", v |-> 5]
    /\ last.ret.exc = "none"
    /\ Len(last.ret.binedges) = 6

InvalidRequest ==
    \/ RLess(last.args.rmax, last.args.rmin)
    \/ RLess(last.args.rmin, RZero)
    \/ RLess(last.args.rmax, RZero)
    \/ last.args.nbins.ety # "int"
    \/ last.args.nbins.v <= 0
    \/ lower(last.args.method) \notin {"evenwidth", "evenlog10width", "equaloccupation"}
    \/ (lower(last.args.method) = "equaloccupation" /\ last.args.source_seps = NoWeights)
    \/ (lower(last.args.method) = "evenlog10width" /\ last.args.rmin = RZero)

\* C18 as stated: make_bins raises ValueError and returns no edges for
\* rmin > rmax, a negative rmin or rmax, an nbins that is not a positive
\* integer, an unsupported method, 'equaloccupation' without source
\* separations, and 'evenlog10width' with rmin = 0.
C18_InvalidRequestRaises ==
    (MakeBinsCall /\ InvalidRequest)
        => (last.ret.exc = "ValueError" /\ last.ret.binedges = <<>>)


(***************************************************************************)
(* GalaxyCluster.make_radial_profile.  In the specification of a cluster   *)
(* `self` is a GalaxyCluster: its redshift, its galaxy catalogue (the      *)
(* names of its columns and its rows) and the profile table it may hold.   *)
(* Angles are in microradians.  clmm.dataops is modelled from its          *)
(* description: what compute_tangential_and_cross_components derives for   *)
(* a galaxy (theta, et, ex) is carried by the galaxy's row and becomes     *)
(* visible as columns once that method has run.                            *)
(***************************************************************************)
Galaxy(id, theta, et, ex) ==
    [id |-> id, theta |-> RInt(theta), et |-> RInt(et), ex |-> RInt(ex), z |-> RInt(1)]

\* ra = [120.1, 119.9, 119.9], dec = [41.9, 42.2, 42.2] seen from ra = 120,
\* dec = 42: separations of 0.002175 and 0.003723 radians
ScenarioGalaxies == <<Galaxy(1, 2175, 1, 0), Galaxy(2, 3723, 2, 1), Galaxy(3, 3723, 4, 1)>>

Catalogues ==
    {ScenarioGalaxies,
     <<Galaxy(1, 2175, 1, 0), Galaxy(2, 2500, 2, 1), Galaxy(3, 3723, 4, 1)>>,
     <<Galaxy(1, 2175, 1, 0), Galaxy(2, 2500, 3, 1)>>}

NoTable == [present |-> FALSE, rows |-> <<>>]

Table(rows) == [present |-> TRUE, rows |-> rows]

NewCluster(rows, columns) ==
    [z |-> 5, galcat |-> [columns |-> columns, rows |-> rows], profile |-> NoTable]

Column(galcat, name) ==
    array([i \in DOMAIN galcat.rows |-> galcat.rows[i][name]], Len(galcat.rows))

\* GalaxyCluster.compute_tangential_and_cross_components with add=True
compute_tangential_and_cross_components(cl) ==
    [cl EXCEPT !.galcat.columns = @ \cup {"theta", "et", "ex"}]

\* bins as an array of edges, or as a number of bins
BinsArray(edges) == [cont |-> "array", v |-> edges]

BinsNumber(n) == [cont |-> "scalar", v |-> <<n>>]

\* hasattr(bins, '__len__')
has_len(bins) == bins.cont = "array"

keep_bin_nonempty(n_src) == n_src > 0

\* dataops.make_radial_profile: which bins stay when empty bins are dropped
keep_bin(n_src) == n_src > 1

\* the bin edges dataops.make_radial_profile uses: the given ones, or
\* make_bins between the smallest and the largest separation
bin_edges(bins, angsep) ==
    LET seps == {angsep[i] : i \in DOMAIN angsep}
        lo == CHOOSE a \in seps : \A b \in seps : ~RLess(b, a)
        hi == CHOOSE a \in seps : \A b \in seps : ~RLess(a, b)
    IN  IF has_len(bins) THEN bins.v
        ELSE make_bins(lo, hi, [ety |-> "int", v |-> bins.v[1]],
                       "evenwidth", NoWeights).binedges

\* compute_radial_averages of every component against the separations
component_averages(components, angsep, edges, error_model) ==
    array([c \in 1..Len(components) |->
              compute_radial_averages(angsep, components[c], edges,
                                      NoWeights, error_model, NoWeights)],
          Len(components))

\* the table of dataops.make_radial_profile and the bin of every row
profile_rows(avg, edges, include_empty_bins) ==
    LET ncomp == Len(avg)
        row(b) == [radius_min |-> edges[b], radius |-> avg[1].mean_x[b],
                   radius_max |-> edges[b + 1],
                   p |-> array([c \in 1..ncomp |-> avg[c].mean_y[b]], ncomp),
                   p_err |-> array([c \in 1..ncomp |-> avg[c].err_y[b]], ncomp),
                   n_src |-> avg[1].num_objects[b]]
        all == array([b \in 1..(Len(edges) - 1) |-> row(b)], Len(edges) - 1)
    IN  [profile_table |-> IF include_empty_bins THEN all
                           ELSE SelectSeq(all, LAMBDA r : keep_bin(r.n_src)),
         binnumber |-> avg[1].binnumber]

\* dataops.make_radial_profile(..., return_binnumber=True) for bins in the
\* units of the separations
dataops_make_radial_profile(components, angsep, bins, error_model, include_empty_bins) ==
    profile_rows(component_averages(components, angsep, bin_edges(bins, angsep),
                                    error_model),
                 bin_edges(bins, angsep), include_empty_bins)

gal_ids_nonempty(lists, include_empty_bins) ==
    IF include_empty_bins THEN lists ELSE SelectSeq(lists, LAMBDA g : Len(g) > 0)

\* the lists of galaxy IDs that go into the gal_id column
gal_ids_kept(lists, include_empty_bins) ==
    IF include_empty_bins THEN lists ELSE SelectSeq(lists, LAMBDA g : Len(g) > 1)

\* a variant that returns the table and never attaches it to the cluster
add_gal_ids_unstored(cl, res, bins, include_empty_bins, gal_ids_in_bins, add, overwrite) ==
    IF gal_ids_in_bins /\ "id" \notin cl.galcat.columns
    THEN Raise(cl, "TypeError")
    ELSE Return(cl, res.profile_table)

\* GalaxyCluster.make_radial_profile from the dataops call on: the gal_id
\* column and the storing of the table; res is what dataops returned
add_gal_ids(cl, res, bins, include_empty_bins, gal_ids_in_bins, add, overwrite) ==
    LET binnumber == res.binnumber
        nbins == IF has_len(bins) THEN Len(bins.v) - 1 ELSE bins.v[1]
        ids == Column(cl.galcat, "id")
        gal_ids == array([i \in 1..nbins |->
                             compress(ids, [k \in DOMAIN ids |-> binnumber[k] = i])],
                         nbins)
        kept == gal_ids_kept(gal_ids, include_empty_bins)
        profile_table ==
            IF gal_ids_in_bins
            THEN array([b \in DOMAIN res.profile_table |->
                           [name \in DOMAIN res.profile_table[b] \cup {"gal_id"} |->
                               IF name = "gal_id" THEN kept[b]
                               ELSE res.profile_table[b][name]]],
                       Len(res.profile_table))
            ELSE res.profile_table
    IN  IF gal_ids_in_bins /\ "id" \notin cl.galcat.columns
        THEN Raise(cl, "TypeError")
        ELSE IF gal_ids_in_bins /\ Len(kept) # Len(res.profile_table)
        THEN Raise(cl, "ValueError")
        ELSE IF add /\ cl.profile.present /\ ~overwrite
        THEN Raise(cl, "AttributeError")
        ELSE Outcome(IF add THEN [cl EXCEPT !.profile = Table(profile_table)] ELSE cl,
                     "none", FALSE, profile_table)

\* GalaxyCluster.make_radial_profile with bin_units='radians', the default
\* component names and table name, and no cosmology
make_radial_profile(cl, bins, error_model, include_empty_bins, gal_ids_in_bins, add, overwrite) ==
    IF ~({"et", "ex", "theta"} \subseteq cl.galcat.columns)
    THEN Raise(cl, "TypeError")
    ELSE IF "z" \notin cl.galcat.columns
    THEN Raise(cl, "TypeError")
    ELSE add_gal_ids(cl,
                     dataops_make_radial_profile(
                         <<Column(cl.galcat, "et"), Column(cl.galcat, "ex"),
                           Column(cl.galcat, "z")>>,
                         Column(cl.galcat, "theta"), bins, error_model,
                         include_empty_bins),
                     bins, include_empty_bins, gal_ids_in_bins, add, overwrite)

BinsInputs ==
    {BinsArray(<<RInt(2000), RInt(3000), RInt(4000)>>),
     BinsArray(<<RInt(2000), RInt(3000), RInt(4000), RInt(5000)>>),
     BinsNumber(2)}

ProfileArgs(bins, error_model, include_empty_bins, gal_ids_in_bins, add, overwrite) ==
    [bins |-> bins, error_model |-> error_model,
     include_empty_bins |-> include_empty_bins, gal_ids_in_bins |-> gal_ids_in_bins,
     add |-> add, overwrite |-> overwrite]

InitCluster ==
    /\ \E rows \in Catalogues, optional \in SUBSET {"id", "z"} :
          self = NewCluster(rows, {"ra", "dec", "e1", "e2"} \cup optional)
    /\ last = Idle(self)

ComputeTangentialAndCrossComponents ==
    /\ Ready
    /\ self' = compute_tangential_and_cross_components(self)
    /\ last' = Done("compute_tangential_and_cross_components", NoArgs,
                    Return(self', <<>>))

MakeRadialProfile ==
    /\ Ready
    /\ \E bins \in BinsInputs, error_model \in {"ste", "std"},
          include_empty_bins \in BOOLEAN, gal_ids_in_bins \in BOOLEAN,
          add \in BOOLEAN, overwrite \in BOOLEAN :
        LET o == make_radial_profile(self, bins, error_model, include_empty_bins,
                                     gal_ids_in_bins, add, overwrite)
        IN  /\ self' = o.m
            /\ last' = Done("make_radial_profile",
                            ProfileArgs(bins, error_model, include_empty_bins,
                                        gal_ids_in_bins, add, overwrite), o)

NextCluster ==
    \/ ComputeTangentialAndCrossComponents
    \/ MakeRadialProfile
    \/ TakeResult

SpecCluster == InitCluster /\ [][NextCluster]_vars


RadialProfileCall == last.op = "make_radial_profile"

RECURSIVE SumCounts(_)
SumCounts(rows) == IF rows = <<>> THEN 0 ELSE Head(rows).n_src + SumCounts(Tail(rows))

\* the scenario: the three galaxies, the components computed, bins of
\* [0.002, 0.003, 0.004] radians, and a profile returned
ScenarioCall ==
    /\ RadialProfileCall
    /\ last.pre.galcat.rows = ScenarioGalaxies
    /\ last.args.bins = BinsArray(<<RInt(2000), RInt(3000), RInt(4000)>>)
    /\ last.exc = "none"

\* C19 as stated: in the scenario, with include_empty_bins=False, the
\* profile has exactly 2 bins whose object counts sum to 3.
C19_ScenarioHasTwoBins ==
    (ScenarioCall /\ ~last.args.include_empty_bins)
        => (Len(last.ret) = 2 /\ SumCounts(last.ret) = 3)

\* C19, amended: in the scenario the galaxies fall 1 and 2 into the two
\* bins; with include_empty_bins=True the profile has exactly 2 bins whose
\* counts sum to 3, and with include_empty_bins=False only the bin of two
\* galaxies is left.
C19_ScenarioKeepsBinsOfTwo ==
    /\ (ScenarioCall /\ last.args.include_empty_bins)
          => /\ Len(last.ret) = 2
             /\ SumCounts(last.ret) = 3
             /\ last.ret[1].n_src = 1 /\ last.ret[2].n_src = 2
    /\ (ScenarioCall /\ ~last.args.include_empty_bins)
          => /\ Len(last.ret) = 1
             /\ last.ret[1].n_src = 2
             /\ last.ret[1].radius_min = RInt(3000)

C19_Witness_ScenarioWithoutEmptyBins ==
    /\ ScenarioCall
    /\ ~last.args.include_empty_bins
    /\ last.pre.galcat.columns = {"ra", "dec", "e1", "e2", "id", "z", "theta", "et", "ex"}
    /\ Len(last.ret) > 0

GalIdCall == RadialProfileCall /\ last.args.gal_ids_in_bins /\ last.exc = "none"

\* C20 as stated: with gal_ids_in_bins=True, for either value of
\* include_empty_bins, no list of the gal_id column has one or zero members.
C20_NoShortGalIdList ==
    GalIdCall => \A b \in DOMAIN last.ret : Len(last.ret[b].gal_id) > 1

\* C20, amended: with gal_ids_in_bins=True the gal_id column lines up with
\* the bins of the profile (the call is never refused for a mismatch); with
\* include_empty_bins=False no list of the column has one or zero members;
\* with include_empty_bins=True there is one list per requested bin, the
\* lists of one or zero members included.
C20_NoShortGalIdListWithoutEmptyBins ==
    /\ RadialProfileCall => last.exc # "ValueError"
    /\ GalIdCall => \A b \in DOMAIN last.ret : Len(last.ret[b].gal_id) = last.ret[b].n_src
    /\ (GalIdCall /\ ~last.args.include_empty_bins)
          => \A b \in DOMAIN last.ret : Len(last.ret[b].gal_id) > 1
    /\ (GalIdCall /\ last.args.include_empty_bins)
          => Len(last.ret) = (IF has_len(last.args.bins)
                              THEN Len(last.args.bins.v) - 1
                              ELSE last.args.bins.v[1])

\* a bin of one galaxy and a bin of two; without empty bins only the list
\* of the two is in the column
C20_Witness_SingleMemberBinDropped ==
    /\ GalIdCall
    /\ ~last.args.include_empty_bins
    /\ Len(last.pre.galcat.rows) = 3
    /\ Len(last.ret) = 1
    /\ Len(last.ret[1].gal_id) = 2


\* C27: when the rebuild step raises during set_halo_density_profile (or a
\* property setter that goes through it), the stored halo_profile_model,
\* massdef and delta_mdef are the ones the object had before the call.
C27_FailedRebuildKeepsStoredTriple ==
    (last.op \in SetterOps /\ last.rebuilt /\ last.exc # "none") =>
        /\ self.halo_profile_model = last.pre.halo_profile_model
        /\ self.massdef = last.pre.massdef
        /\ self.delta_mdef = last.pre.delta_mdef


\* C30: with validation off, a call of eval_reduced_tangential_shear,
\* eval_magnification or eval_magnification_bias with an unsupported
\* (z_src_info, approx) pair ends in ValueError: it neither returns a value
\* nor ends in an exception of another type.
C30_UnvalidatedUnsupportedIsValueError ==
    (/\ ApproxCall
     /\ ~last.pre.validate_input
     /\ ~SupportedCombination(last.args.z_src_info, last.args.approx))
    => last.exc = "ValueError"


(***************************************************************************)
(* GalaxyCluster: construction and the right-ascension range.              *)
(* Angles are whole degrees.  A str holding a number carries it in v, any  *)
(* other str has v = <<>>.                                                 *)
(***************************************************************************)
Omitted == [cont |-> "omitted", ety |-> "omitted", v |-> <<>>]

IntVal(i) == [cont |-> "scalar", ety |-> "int", v |-> <<i>>]

NumStr(i) == [cont |-> "str", ety |-> "str", v |-> <<i>>]

\* a GCData catalogue, with an 'ra' column holding ra when has_ra
GCData(has_ra, ra) ==
    [cont |-> "GCData", ety |-> "GCData", v |-> <<>>, has_ra |-> has_ra, ra |-> ra]

\* a validation whose bounds are always exclusive
validate_argument_open(var, valid_types, argmin, eqmin, argmax, eqmax) ==
    IF \A t \in valid_types : _is_valid(var, t) # "True" THEN "TypeError"
    ELSE IF argmin = NoBound /\ argmax = NoBound THEN "ok"
    ELSE IF var.v = <<>> THEN "TypeError"
    ELSE IF argmin # NoBound /\ SeqMin(var.v) <= argmin THEN "ValueError"
    ELSE IF argmax # NoBound /\ SeqMax(var.v) >= argmax THEN "ValueError"
    ELSE "ok"

\* utils.validate_argument with a tuple of valid types, none_ok=False and
\* both bounds; NoBound stands for None
validate_argument_any(var, valid_types, argmin, eqmin, argmax, eqmax) ==
    IF \A t \in valid_types : _is_valid(var, t) # "True" THEN "TypeError"
    ELSE IF argmin = NoBound /\ argmax = NoBound THEN "ok"
    ELSE IF var.v = <<>> THEN "TypeError"
    ELSE IF argmin # NoBound
            /\ (IF eqmin THEN SeqMin(var.v) < argmin ELSE SeqMin(var.v) <= argmin)
         THEN "ValueError"
    ELSE IF argmax # NoBound
            /\ (IF eqmax THEN SeqMax(var.v) > argmax ELSE SeqMax(var.v) >= argmax)
         THEN "ValueError"
    ELSE "ok"

\* GalaxyCluster.__init__ without arguments: every attribute is None
EmptyCluster ==
    [unique_id |-> NoneVal, ra |-> NoneVal, dec |-> NoneVal, z |-> NoneVal,
     galcat |-> NoneVal]

\* GalaxyCluster._check_types: the validations, in the order of the source
_check_types(cl) ==
    FirstError(<<
        validate_argument_any(cl.unique_id, {"int", "str"}, NoBound, FALSE, NoBound, FALSE),
        validate_argument_any(cl.ra, {"float", "str"}, -360, TRUE, 360, TRUE),
        validate_argument_any(cl.dec, {"float", "str"}, -90, TRUE, 90, TRUE),
        validate_argument_any(cl.z, {"float", "str"}, 0, TRUE, NoBound, FALSE),
        validate_argument_any(cl.galcat, {"GCData"}, NoBound, FALSE, NoBound, FALSE)>>)

\* the two shifts of set_ra_lower on one value: add 360 below ra_low, then
\* take 360 off at or above ra_low + 360
shift_ra(ra, ra_low) ==
    LET up == IF ra < ra_low THEN ra + 360 ELSE ra
    IN  IF up >= ra_low + 360 THEN up - 360 ELSE up

\* GalaxyCluster.set_ra_lower
set_ra_lower(cl, ra_low) ==
    IF ra_low \notin {-180, 0} THEN Raise(cl, "ValueError")
    ELSE IF cl.ra.cont = "None" THEN Raise(cl, "TypeError")
    ELSE Return([cl EXCEPT
                    !.ra = Scalar(shift_ra(cl.ra.v[1], ra_low)),
                    !.galcat = IF cl.galcat.has_ra
                               THEN [@ EXCEPT !.ra = [i \in DOMAIN @ |-> shift_ra(@[i], ra_low)]]
                               ELSE @],
                <<>>)

\* str(unique_id), float(ra), float(dec), float(z) at the end of _check_types
converted(cl) ==
    [cl EXCEPT !.unique_id = NumStr(cl.unique_id.v[1]),
               !.ra = Scalar(cl.ra.v[1]), !.dec = Scalar(cl.dec.v[1]),
               !.z = Scalar(cl.z.v[1])]

\* GalaxyCluster.__init__: a call that raises leaves no object, which the
\* model writes as EmptyCluster
GalaxyCluster(unique_id, ra, dec, z, galcat) ==
    LET given == <<unique_id, ra, dec, z, galcat>>
        cl == [unique_id |-> unique_id, ra |-> ra, dec |-> dec, z |-> z,
               galcat |-> galcat]
    IN  IF \A i \in 1..5 : given[i] = Omitted THEN Return(EmptyCluster, <<>>)
        ELSE IF \E i \in 1..5 : given[i] = Omitted THEN Raise(EmptyCluster, "TypeError")
        ELSE IF _check_types(cl) # "ok" THEN Raise(EmptyCluster, _check_types(cl))
        ELSE set_ra_lower(converted(cl), 0)

UniqueIdInputs == {Omitted, NoneVal, IntVal(1), NumStr(1)}

RaInputs ==
    {Omitted, NoneVal, StrVal, Scalar(-361), Scalar(-360), IntVal(161), NumStr(161),
     NumStr(360), Scalar(361)}

DecInputs ==
    {Omitted, NoneVal, Scalar(-91), Scalar(-90), NumStr(55), Scalar(91)}

ZInputs == {Omitted, NoneVal, Scalar(-1), Scalar(0), IntVal(1)}

GalcatInputs ==
    {Omitted, IntVal(1), Array(<<>>), GCData(FALSE, <<>>), GCData(TRUE, <<-10, 200>>),
     GCData(TRUE, <<-200, 719>>), GCData(TRUE, <<720>>)}

RaLowInputs == {-180, 0, 180}

ConstructArgs(unique_id, ra, dec, z, galcat) ==
    [unique_id |-> unique_id, ra |-> ra, dec |-> dec, z |-> z, galcat |-> galcat,
     ra_low |-> 0]

InitConstruct == self = EmptyCluster /\ last = Idle(self)

\* cl = GalaxyCluster(...): there is no earlier object
Construct ==
    /\ Ready
    /\ \E unique_id \in UniqueIdInputs, ra \in RaInputs, dec \in DecInputs,
          z \in ZInputs, galcat \in GalcatInputs :
        LET o == GalaxyCluster(unique_id, ra, dec, z, galcat)
        IN  /\ self' = o.m
            /\ last' = [Done("GalaxyCluster",
                             ConstructArgs(unique_id, ra, dec, z, galcat), o)
                        EXCEPT !.pre = EmptyCluster]

SetRaLower ==
    /\ Ready
    /\ \E ra_low \in RaLowInputs :
        LET o == set_ra_lower(self, ra_low)
        IN  /\ self' = o.m
            /\ last' = Done("set_ra_lower", [ra_low |-> ra_low], o)

NextConstruct == Construct \/ SetRaLower \/ TakeResult

SpecConstruct == InitConstruct /\ [][NextConstruct]_vars

ConstructCall == last.op = "GalaxyCluster"

ConstructGiven(a) == <<a.unique_id, a.ra, a.dec, a.z, a.galcat>>

AnyOmitted(a) == \E i \in 1..5 : ConstructGiven(a)[i] = Omitted

AllOmitted(a) == \A i \in 1..5 : ConstructGiven(a)[i] = Omitted

\* an argument of a type the constructor rejects
TypeBad(a) ==
    \/ a.unique_id = NoneVal
    \/ a.galcat.cont # "GCData"
    \/ \E x \in {a.ra, a.dec, a.z} : x = NoneVal

OutOf(x, lo, hi) == x.v # <<>> /\ (x.v[1] < lo \/ x.v[1] > hi)

\* a coordinate or redshift outside its domain
RangeBad(a) ==
    \/ OutOf(a.ra, -360, 360)
    \/ OutOf(a.dec, -90, 90)
    \/ (a.z.v # <<>> /\ a.z.v[1] < 0)

\* a str that holds no number, about which nothing is stated
NonNumeric(a) == \E x \in {a.ra, a.dec, a.z} : x = StrVal

StoredAsStrAndFloats ==
    /\ last.exc = "none"
    /\ self.unique_id.cont = "str"
    /\ \A x \in {self.ra, self.dec, self.z} : x.cont = "scalar" /\ x.ety = "float"
    /\ self.dec.v = last.args.dec.v
    /\ self.z.v = last.args.z.v

ConstructChecks(a) ==
    /\ (~AnyOmitted(a) /\ TypeBad(a) /\ ~RangeBad(a)) => last.exc = "TypeError"
    /\ (~AnyOmitted(a) /\ RangeBad(a) /\ ~TypeBad(a) /\ ~NonNumeric(a))
           => last.exc = "ValueError"
    /\ (~AnyOmitted(a) /\ ~TypeBad(a) /\ ~RangeBad(a) /\ ~NonNumeric(a))
           => StoredAsStrAndFloats

\* C22: a construction with any of unique_id, ra, dec, z, galcat omitted raises
\* TypeError; with all five given, a None unique_id, ra, dec or z or a galcat
\* that is not a GCData raises TypeError, a value outside [-360, 360],
\* [-90, 90] or below 0 raises ValueError, and otherwise (the boundaries
\* included) the object is made with unique_id a str and ra, dec, z floats.
C22_ConstructionValidates ==
    ConstructCall =>
        /\ AnyOmitted(last.args) => last.exc = "TypeError"
        /\ ConstructChecks(last.args)

\* C22, amended: the TypeError for omitted arguments is raised when some but
\* not all of the five are omitted; a construction with no argument at all
\* returns an object whose five attributes are None.
C22_ConstructionValidatesWhenAnyGiven ==
    ConstructCall =>
        /\ (AnyOmitted(last.args) /\ ~AllOmitted(last.args)) => last.exc = "TypeError"
        /\ AllOmitted(last.args) => (last.exc = "none" /\ self = EmptyCluster)
        /\ ConstructChecks(last.args)

C22_Witness_BoundaryStringsAccepted ==
    /\ ConstructCall
    /\ last.exc = "none"
    /\ last.args.unique_id = IntVal(1)
    /\ last.args.ra = NumStr(360)
    /\ last.args.dec = Scalar(-90)
    /\ last.args.z = Scalar(0)
    /\ self.unique_id = NumStr(1)
    /\ self.dec = Scalar(-90)

InRaRange(x, ra_low) == ra_low <= x /\ x < ra_low + 360

\* C25: after a construction and after every set_ra_lower(ra_low) with ra_low
\* in {-180, 0}, the cluster ra and every 'ra' value of galcat lie in
\* [ra_low, ra_low + 360); any other ra_low raises ValueError and changes
\* neither.
C25_RaWithinRange ==
    /\ (last.op \in {"GalaxyCluster", "set_ra_lower"} /\ last.exc = "none"
        /\ self.ra # NoneVal)
       => /\ InRaRange(self.ra.v[1], last.args.ra_low)
          /\ self.galcat.has_ra =>
                \A i \in DOMAIN self.galcat.ra :
                    InRaRange(self.galcat.ra[i], last.args.ra_low)
    /\ (last.op = "set_ra_lower" /\ last.args.ra_low \notin {-180, 0})
       => (last.exc = "ValueError" /\ self = last.pre)

(***************************************************************************)
(* GalaxyCluster: the galaxy catalogue and the columns derived from it.    *)
(* A catalogue is the function from its column names to what each column   *)
(* holds, with the cosmology descriptor of its metadata.  A column holds   *)
(* what it was given (Input) or the value of the function that computed    *)
(* it, named by the function and its arguments.  Redshifts are tenths.     *)
(***************************************************************************)
Input(v) == [src |-> "input", v |-> v]

\* the value of compute_critical_surface_density(cosmo, z_cluster, z_source)
SigmaCrit(cosmo, z_cluster, z_source) ==
    [src |-> "sigma_c", cosmo |-> cosmo, z_cluster |-> z_cluster, z_source |-> z_source]

\* a value of dataops computed from the catalogue's sky positions and shapes
Derived(src, is_deltasigma) == [src |-> src, is_deltasigma |-> is_deltasigma]

\* galcat[name] = data
SetCol(galcat, name, data) == [galcat EXCEPT !.cols = (name :> data) @@ @]

columns(galcat) == DOMAIN galcat.cols

\* a cluster at redshift z whose catalogue has the columns colnames, with
\* source redshifts z_source in the 'z' column, and no cosmology recorded
ClusterWith(z, colnames, z_source) ==
    [z |-> z,
     galcat |-> [cols |-> [c \in colnames |->
                              IF c = "z" THEN Input(z_source) ELSE Input(<<>>)],
                 cosmo |-> "None"]]

\* a variant that records the cosmology before it tests the redshifts
add_critical_surface_density_eager(cl, cosmo) ==
    IF cosmo = "None" THEN Raise(cl, "TypeError")
    ELSE IF cosmo # cl.galcat.cosmo \/ "sigma_c" \notin columns(cl.galcat)
    THEN LET m == [cl EXCEPT !.galcat.cosmo = cosmo]
         IN  IF cl.z = NoneZ THEN Raise(m, "TypeError")
             ELSE IF "z" \notin columns(cl.galcat) THEN Raise(m, "TypeError")
             ELSE Return([m EXCEPT !.galcat =
                             SetCol(@, "sigma_c",
                                    SigmaCrit(cosmo, cl.z, cl.galcat.cols["z"].v))],
                         <<>>)
    ELSE Return(cl, <<>>)

\* GalaxyCluster.add_critical_surface_density; cosmo is the descriptor
\* cosmo.get_desc(), "None" for None
add_critical_surface_density(cl, cosmo) ==
    IF cosmo = "None" THEN Raise(cl, "TypeError")
    ELSE IF cosmo # cl.galcat.cosmo \/ "sigma_c" \notin columns(cl.galcat)
    THEN IF cl.z = NoneZ THEN Raise(cl, "TypeError")
         ELSE IF "z" \notin columns(cl.galcat) THEN Raise(cl, "TypeError")
         ELSE Return([cl EXCEPT !.galcat =
                         SetCol([@ EXCEPT !.cosmo = cosmo], "sigma_c",
                                SigmaCrit(cosmo, cl.z, cl.galcat.cols["z"].v))],
                     <<>>)
    ELSE Return(cl, <<>>)

\* GalaxyCluster._get_input_galdata: the names of use_cols that are not
\* columns of galcat, in order; <<>> when none is missing
_get_input_galdata(cl, use_cols) ==
    SelectSeq(use_cols, LAMBDA t_ : t_ \notin columns(cl.galcat))

\* the TypeError of _get_input_galdata, whose message names the columns
MissingColumns(cl, missing) == Outcome(cl, "TypeError", FALSE, missing)

\* GalaxyCluster.compute_tangential_and_cross_components with all its arguments
tangential_and_cross_components(cl, shape_component1, shape_component2, tan_component, cross_component, is_deltasigma, cosmo, add) ==
    LET missing == _get_input_galdata(cl, <<"ra", "dec", shape_component1, shape_component2>>)
        sig == IF is_deltasigma THEN add_critical_surface_density(cl, cosmo)
               ELSE Return(cl, <<>>)
    IN  IF missing # <<>> THEN MissingColumns(cl, missing)
        ELSE IF sig.exc # "none" THEN sig
        ELSE IF add
        THEN Return([sig.m EXCEPT !.galcat =
                        SetCol(SetCol(SetCol(@, "theta", Derived("angsep", FALSE)),
                                      tan_component, Derived("tangential", is_deltasigma)),
                               cross_component, Derived("cross", is_deltasigma))],
                    <<"angsep", "tangential", "cross">>)
        ELSE Return(sig.m, <<"angsep", "tangential", "cross">>)

\* a variant that requires every column argument
required_cols_all(use_photoz, is_deltasigma, use_shape_error) ==
    <<"shape_component1", "shape_component2", "pzpdf", "pzbins", "z_source",
      "shape_component1_err", "shape_component2_err">>

\* GalaxyCluster.compute_galaxy_weights: the list required_cols
required_cols(use_photoz, is_deltasigma, use_shape_error) ==
    <<"shape_component1", "shape_component2">>
    \o (IF use_photoz THEN <<"pzpdf", "pzbins">>
        ELSE IF is_deltasigma THEN <<"z_source">>
        ELSE <<>>)
    \o (IF use_shape_error THEN <<"shape_component1_err", "shape_component2_err">>
        ELSE <<>>)

\* GalaxyCluster.compute_galaxy_weights; a is locals(), the arguments by name
compute_galaxy_weights(cl, a) ==
    LET req == required_cols(a.use_photoz, a.is_deltasigma, a.use_shape_error)
        missing == _get_input_galdata(cl, [i \in DOMAIN req |-> a[req[i]]])
    IN  IF missing # <<>> THEN MissingColumns(cl, missing)
        ELSE IF a.add
        THEN Return([cl EXCEPT !.galcat =
                        SetCol(@, a.weight_name, Derived("w_ls", a.is_deltasigma))],
                    <<"w_ls">>)
        ELSE Return(cl, <<"w_ls">>)

\* the arguments of compute_galaxy_weights, with the source's defaults
WeightArgs(shape_component1, use_photoz, is_deltasigma, use_shape_error, add) ==
    [z_source |-> "z", pzpdf |-> "pzpdf", pzbins |-> "pzbins",
     shape_component1 |-> shape_component1, shape_component2 |-> "e2",
     shape_component1_err |-> "e1_err", shape_component2_err |-> "e2_err",
     use_photoz |-> use_photoz, use_shape_error |-> use_shape_error,
     weight_name |-> "w_ls", is_deltasigma |-> is_deltasigma, add |-> add]

CatalogueColumns ==
    {{"ra", "dec"},
     {"e1", "e2", "z"},
     {"ra", "dec", "e1", "e2"},
     {"ra", "dec", "e1", "e2", "z"},
     {"ra", "dec", "e1", "z", "pzbins"},
     {"ra", "dec", "e1", "e2", "pzpdf", "pzbins", "e2_err"},
     {"ra", "dec", "e1", "e2", "z", "pzpdf", "pzbins", "e1_err", "e2_err"}}

ClusterZInputs == {NoneZ, 3, 5}

GalaxyZInputs == {<<10, 20>>, <<8, 20>>}

CosmoInputs == {"None", "LCDM70", "LCDM67"}

InitCatalogue ==
    /\ \E colnames \in CatalogueColumns : self = ClusterWith(3, colnames, <<10, 20>>)
    /\ last = Idle(self)

AddCriticalSurfaceDensity ==
    /\ Ready
    /\ \E cosmo \in CosmoInputs :
        LET o == add_critical_surface_density(self, cosmo)
        IN  /\ self' = o.m
            /\ last' = Done("add_critical_surface_density", [cosmo |-> cosmo], o)

\* cluster.z = z
SetClusterZ ==
    /\ Ready
    /\ \E z \in ClusterZInputs :
        /\ self' = [self EXCEPT !.z = z]
        /\ last' = Done("set_z", [z |-> z], Return(self', <<>>))

\* cluster.galcat['z'] = z_source
SetGalaxyZ ==
    /\ Ready
    /\ \E z_source \in GalaxyZInputs :
        /\ self' = [self EXCEPT !.galcat = SetCol(@, "z", Input(z_source))]
        /\ last' = Done("set_galcat_z", [z_source |-> z_source], Return(self', <<>>))

TangentialAndCrossComponents ==
    /\ Ready
    /\ \E is_deltasigma \in BOOLEAN, cosmo \in CosmoInputs, add \in BOOLEAN :
        LET o == tangential_and_cross_components(self, "e1", "e2", "et", "ex",
                                                 is_deltasigma, cosmo, add)
        IN  /\ self' = o.m
            /\ last' = Done("compute_tangential_and_cross_components",
                            [tan_component |-> "et", cross_component |-> "ex",
                             is_deltasigma |-> is_deltasigma, cosmo |-> cosmo,
                             add |-> add], o)

ComputeGalaxyWeights ==
    /\ Ready
    /\ \E shape_component1 \in {"e1", "g1"}, use_photoz \in BOOLEAN,
          is_deltasigma \in BOOLEAN, use_shape_error \in BOOLEAN, add \in BOOLEAN :
        LET a == WeightArgs(shape_component1, use_photoz, is_deltasigma,
                            use_shape_error, add)
            o == compute_galaxy_weights(self, a)
        IN  /\ self' = o.m
            /\ last' = Done("compute_galaxy_weights", a, o)

NextCatalogue ==
    \/ AddCriticalSurfaceDensity
    \/ SetClusterZ
    \/ SetGalaxyZ
    \/ TangentialAndCrossComponents
    \/ ComputeGalaxyWeights
    \/ TakeResult

SpecCatalogue == InitCatalogue /\ [][NextCatalogue]_vars

CsdCall == last.op = "add_critical_surface_density"

\* the recomputation test of add_critical_surface_density on the catalogue
\* the call found
RecomputeNeeded ==
    \/ last.args.cosmo # last.pre.galcat.cosmo
    \/ "sigma_c" \notin columns(last.pre.galcat)

RedshiftsMissing == last.pre.z = NoneZ \/ "z" \notin columns(last.pre.galcat)

\* the columns of post that pre does not have or holds with other contents
ChangedColumns(pre, post) ==
    {c \in columns(post) : c \notin columns(pre) \/ post.cols[c] # pre.cols[c]}

\* C23: add_critical_surface_density(cosmo) raises TypeError for cosmo None
\* and, when a recomputation is needed, for a cluster z of None or a galcat
\* without 'z', each time leaving galcat as it was; it writes 'sigma_c' and
\* the cosmology only when the descriptor differs from the recorded one or
\* 'sigma_c' is absent, so a repeated call with the same cosmology changes
\* nothing.
C23_SigmaCritOnlyWhenNeeded ==
    CsdCall =>
        /\ last.args.cosmo = "None" => (last.exc = "TypeError" /\ self = last.pre)
        /\ (last.args.cosmo # "None" /\ RecomputeNeeded /\ RedshiftsMissing)
               => (last.exc = "TypeError" /\ self = last.pre)
        /\ (last.args.cosmo # "None" /\ RecomputeNeeded /\ ~RedshiftsMissing)
               => /\ last.exc = "none"
                  /\ self.galcat.cosmo = last.args.cosmo
                  /\ "sigma_c" \in columns(self.galcat)
                  /\ ChangedColumns(last.pre.galcat, self.galcat) \subseteq {"sigma_c"}
                  /\ columns(last.pre.galcat) \subseteq columns(self.galcat)
        /\ (last.args.cosmo # "None" /\ ~RecomputeNeeded)
               => (last.exc = "none" /\ self = last.pre)

C23_Witness_RepeatedCallChangesNothing ==
    /\ CsdCall
    /\ last.exc = "none"
    /\ ~RecomputeNeeded
    /\ self.galcat.cosmo = "LCDM67"
    /\ self = last.pre

\* C28: whenever add_critical_surface_density(cosmo) returns without error,
\* 'sigma_c' is the critical surface density of cosmo, the current cluster z
\* and the current galaxy redshifts.
C28_SigmaCritIsCurrent ==
    (CsdCall /\ last.exc = "none" /\ self.z # NoneZ /\ "z" \in columns(self.galcat))
    => /\ "sigma_c" \in columns(self.galcat)
       /\ self.galcat.cols["sigma_c"]
              = SigmaCrit(last.args.cosmo, self.z, self.galcat.cols["z"].v)

TanCall == last.op = "compute_tangential_and_cross_components"

\* C29: compute_tangential_and_cross_components with add=False leaves galcat
\* (columns and metadata) as it was, whatever is_deltasigma; with add=True it
\* writes 'theta', tan_component and cross_component, and besides them only
\* what is_deltasigma needs.
C29_AddFalseLeavesGalcat ==
    TanCall =>
        /\ ~last.args.add => self.galcat = last.pre.galcat
        /\ (last.args.add /\ last.exc = "none")
               => /\ {"theta", last.args.tan_component, last.args.cross_component}
                         \subseteq columns(self.galcat)
                  /\ self.galcat.cols["theta"] = Derived("angsep", FALSE)
                  /\ self.galcat.cols[last.args.tan_component]
                         = Derived("tangential", last.args.is_deltasigma)
                  /\ self.galcat.cols[last.args.cross_component]
                         = Derived("cross", last.args.is_deltasigma)
                  /\ ChangedColumns(last.pre.galcat, self.galcat) \subseteq
                         {"theta", last.args.tan_component, last.args.cross_component}
                         \cup (IF last.args.is_deltasigma THEN {"sigma_c"} ELSE {})
                  /\ ~last.args.is_deltasigma
                         => self.galcat.cosmo = last.pre.galcat.cosmo

WeightsCall == last.op = "compute_galaxy_weights"

\* the columns the call must find, as the claim lists them
RequiredColumns(a) ==
    {a.shape_component1, a.shape_component2}
    \cup (IF a.use_photoz THEN {a.pzpdf, a.pzbins} ELSE {})
    \cup (IF a.is_deltasigma /\ ~a.use_photoz THEN {a.z_source} ELSE {})
    \cup (IF a.use_shape_error THEN {a.shape_component1_err, a.shape_component2_err}
          ELSE {})

\* C21: compute_galaxy_weights requires the two shape columns always, pzpdf
\* and pzbins exactly when use_photoz, the source-redshift column exactly when
\* is_deltasigma and not use_photoz, and the two shape-error columns exactly
\* when use_shape_error; if any of them is missing it raises a TypeError that
\* names every missing column, computes no weights and leaves galcat as it
\* was; columns that are not required are never checked.
C21_RequiredColumnsChecked ==
    WeightsCall =>
        LET missing == RequiredColumns(last.args) \ columns(last.pre.galcat)
        IN  /\ missing # {}
                => /\ last.exc = "TypeError"
                   /\ {last.ret[i] : i \in DOMAIN last.ret} = missing
                   /\ self = last.pre
            /\ missing = {}
                => /\ last.exc = "none"
                   /\ last.ret = <<"w_ls">>
                   /\ last.args.add =>
                          last.args.weight_name \in columns(self.galcat)
                   /\ ~last.args.add => self = last.pre

C21_Witness_PhotozNeedsNoRedshiftColumn ==
    /\ WeightsCall
    /\ last.args.use_photoz
    /\ last.args.is_deltasigma
    /\ "z" \notin columns(last.pre.galcat)
    /\ last.exc = "none"
    /\ "w_ls" \in columns(self.galcat)

\* a column make_radial_profile needs is not in the catalogue the call found
ProfileColumnMissing ==
    \/ ~({"et", "ex", "theta", "z"} \subseteq last.pre.galcat.columns)
    \/ (last.args.gal_ids_in_bins /\ "id" \notin last.pre.galcat.columns)

NoneCosmo == -1

Quantity(q, pi) == [q |-> q, pi |-> pi]

\* the angular units, each as its size in radians
angular_bank ==
    [radians |-> Quantity(ROne, 0), degrees |-> Quantity(Rat(1, 180), 1),
     arcmin |-> Quantity(Rat(1, 10800), 1), arcsec |-> Quantity(Rat(1, 648000), 1)]

\* the physical units, each as its size in Mpc
physical_bank ==
    [pc |-> Quantity(Rat(1, 1000000), 0), kpc |-> Quantity(Rat(1, 1000), 0),
     mpc |-> Quantity(ROne, 0)]

units_bank == angular_bank @@ physical_bank

\* (dist * unit1).to(unit2).value for two units of one kind
to(dist, unit1, unit2) ==
    Quantity(RMul(dist.q, RDiv(units_bank[unit1].q, units_bank[unit2].q)),
             dist.pi + units_bank[unit1].pi - units_bank[unit2].pi)

\* a variant that divides by the angular diameter distance
rad2mpc_inverse(cosmo, dist1, redshift) ==
    Quantity(RDiv(dist1.q, eval_da(cosmo, redshift)), dist1.pi)

\* cosmo.rad2mpc(dist1, redshift)
rad2mpc(cosmo, dist1, redshift) ==
    Quantity(RMul(dist1.q, eval_da(cosmo, redshift)), dist1.pi)

\* cosmo.mpc2rad(dist1, redshift)
mpc2rad(cosmo, dist1, redshift) ==
    Quantity(RDiv(dist1.q, eval_da(cosmo, redshift)), dist1.pi)

NoDistance == Quantity(NaN, 0)

\* utils.convert_units: the exception raised and the converted distance
convert_units(dist1, unit1_in, unit2_in, redshift, cosmo) ==
    LET unit1 == lower(unit1_in)
        unit2 == lower(unit2_in)
    IN  IF unit1 \notin DOMAIN units_bank THEN [exc |-> "ValueError", dist2 |-> NoDistance]
        ELSE IF unit2 \notin DOMAIN units_bank
        THEN [exc |-> "ValueError", dist2 |-> NoDistance]
        ELSE IF (unit1 \in DOMAIN angular_bank) = (unit2 \in DOMAIN angular_bank)
        THEN [exc |-> "none", dist2 |-> to(dist1, unit1, unit2)]
        ELSE IF redshift = NoneZ \/ cosmo = NoneCosmo
        THEN [exc |-> "TypeError", dist2 |-> NoDistance]
        ELSE IF ~(redshift > 0) THEN [exc |-> "ValueError", dist2 |-> NoDistance]
        ELSE IF unit1 \in DOMAIN angular_bank /\ unit2 \in DOMAIN physical_bank
        THEN [exc |-> "none",
              dist2 |-> to(rad2mpc(cosmo, to(dist1, unit1, "radians"), redshift),
                           "mpc", unit2)]
        ELSE [exc |-> "none",
              dist2 |-> to(mpc2rad(cosmo, to(dist1, unit1, "mpc"), redshift),
                           "radians", unit2)]

UnitInputs ==
    {"radians", "Degrees", "degrees", "arcmin", "arcsec", "kpc", "Mpc", "furlong"}

DistanceInputs == {Quantity(RInt(1), 0), Quantity(RInt(60), 0)}

RedshiftInputs == {NoneZ, -1, 0, 3, 5}

ConvertArgs(dist1, unit1, unit2, redshift, cosmo) ==
    [dist1 |-> dist1, unit1 |-> unit1, unit2 |-> unit2, redshift |-> redshift,
     cosmo |-> cosmo]

ConvertUnits ==
    /\ Ready
    /\ \E dist1 \in DistanceInputs, unit1 \in UnitInputs, unit2 \in UnitInputs,
          redshift \in RedshiftInputs, cosmo \in Cosmologies \cup {NoneCosmo} :
        LET r == convert_units(dist1, unit1, unit2, redshift, cosmo)
        IN  last' = Done("convert_units",
                         ConvertArgs(dist1, unit1, unit2, redshift, cosmo),
                         Outcome(self, r.exc, FALSE, r.dist2))
    /\ UNCHANGED self

NextUnits ==
    \/ ConvertUnits
    \/ TakeResult

SpecUnits == InitBinning /\ [][NextUnits]_vars

ConvertCall == last.op = "convert_units"

AngularNames == {"radians", "degrees", "Degrees", "arcmin", "arcsec"}

PhysicalNames == {"pc", "kpc", "Mpc"}

\* the size of a unit the claim lists, in radians or in Mpc
UnitSize(unit) ==
    CASE unit = "radians" -> Quantity(ROne, 0)
      [] unit \in {"degrees", "Degrees"} -> Quantity(Rat(1, 180), 1)
      [] unit = "arcmin" -> Quantity(Rat(1, 60 * 180), 1)
      [] unit = "arcsec" -> Quantity(Rat(1, 3600 * 180), 1)
      [] unit = "pc" -> Quantity(Rat(1, 1000 * 1000), 0)
      [] unit = "kpc" -> Quantity(Rat(1, 1000), 0)
      [] unit = "Mpc" -> Quantity(ROne, 0)

\* dist2 in unit2 is the same distance as x times dist1 in unit1
SameDistance(dist1, unit1, dist2, unit2, x) ==
    /\ RMul(dist2.q, UnitSize(unit2).q) = RMul(x, RMul(dist1.q, UnitSize(unit1).q))
    /\ dist2.pi + UnitSize(unit2).pi = dist1.pi + UnitSize(unit1).pi

\* C24: convert_units raises ValueError for an unsupported input or output
\* unit; a conversion between two angular or two physical units succeeds
\* without redshift or cosmology; a conversion between an angular and a
\* physical unit raises TypeError exactly when the redshift or the cosmology
\* is None, ValueError when the redshift is not greater than zero, and
\* otherwise goes through the cosmology's rad2mpc or mpc2rad.
C24_ConvertUnits ==
    ConvertCall =>
        LET a == last.args
            supported == AngularNames \cup PhysicalNames
            crossing == (a.unit1 \in AngularNames) # (a.unit2 \in AngularNames)
            absent == a.redshift = NoneZ \/ a.cosmo = NoneCosmo
        IN  /\ (a.unit1 \notin supported \/ a.unit2 \notin supported)
                   => last.exc = "ValueError"
            /\ (a.unit1 \in supported /\ a.unit2 \in supported /\ ~crossing)
                   => /\ last.exc = "none"
                      /\ SameDistance(a.dist1, a.unit1, last.ret, a.unit2, ROne)
            /\ (a.unit1 \in supported /\ a.unit2 \in supported /\ crossing)
                   => /\ last.exc = "TypeError" <=> absent
                      /\ (~absent /\ a.redshift <= 0) => last.exc = "ValueError"
                      /\ (~absent /\ a.redshift > 0 /\ a.unit1 \in AngularNames)
                             => /\ last.exc = "none"
                                /\ SameDistance(a.dist1, a.unit1, last.ret, a.unit2,
                                                eval_da(a.cosmo, a.redshift))
                      /\ (~absent /\ a.redshift > 0 /\ a.unit1 \in PhysicalNames)
                             => /\ last.exc = "none"
                                /\ SameDistance(a.dist1, a.unit1, last.ret, a.unit2,
                                                RDiv(ROne, eval_da(a.cosmo, a.redshift)))

C24_Witness_ArcminToKpc ==
    /\ ConvertCall
    /\ last.args.unit1 = "arcmin"
    /\ last.args.unit2 = "kpc"
    /\ last.args.redshift = 5
    /\ last.args.cosmo = 30
    /\ last.exc = "none"
    /\ last.ret.pi = 1

====
